---------------------------- MODULE Spec2Model ----------------------------
(***************************************************************************)
(* A model of pdf_utils: the rectangle algebra, the word-annotation        *)
(* matcher, the flow neighborhood resolver and the flow aggregator of      *)
(* AnnotatedPdf.                                                           *)
(*                                                                         *)
(* Coordinates are integers standing for the decimal numbers of the pdf.   *)
(* A score is kept as the exact fraction num/den (den > 0); on the small   *)
(* integers used here the float comparison `score > 0.4` of the code       *)
(* agrees with the exact comparison of the fractions.                      *)
(* An Optional value is <<>> (None) or <<v>>.                              *)
(***************************************************************************)
EXTENDS Integers, Sequences, FiniteSets, TLC

VARIABLES
    html,                   \* the parsed pdftotext output: the element nodes, in document order
    _pages_as_html,         \* AnnotatedPdf._pages_as_html: the page element of every page
    _page_to_page_idx,      \* AnnotatedPdf._page_to_page_idx
    _flows_as_html,         \* AnnotatedPdf._flows_as_html
    _flow_to_id,            \* AnnotatedPdf._flow_to_id
    raw_annotations,        \* AnnotatedPdf._raw_annotations
    _enriched_annotations,  \* AnnotatedPdf._enriched_annotations: None or the list
    pc,                     \* where the caller / get_flows_with_annotations stands
    transform,              \* the transform_anno_text_description of the running call
    annotated_flows,        \* local of get_flows_with_annotations
    annot_idx,              \* position of its loop over enriched_annotations (1-based)
    words_arg,              \* the words handed to a direct call of _get_neighborhood_of_words
    result,                 \* what the last finished call returned
    log,                    \* the warnings logged so far by the running / last call
    rectangles,             \* the list of rectangles the caller holds and passes to the rectangle operations
    call_arg,               \* normalize_list_of_rectangles: the list passed to the call being entered
    frames,                 \* normalize_list_of_rectangles: first and first_intersects_some of the calls under way
    rest_normalized,        \* normalize_list_of_rectangles: what the innermost finished call returned
    first_output,           \* None, or what the caller's first normalization returned
    pdf_pages,              \* the pages of the pdf as the reader hands them to the extractor
    outputs,                \* local of get_annot_from_pdf
    idx,                    \* position of its loop over the pages (0-based)
    box_as_list,            \* the /Rect of a record as the caller of _create_annotations_bounding_box holds it
    page_height,            \* and the height of its page
    args,                   \* the arguments of a call as they were when the caller made it
    kept,                   \* None, or what the caller has kept of the result of an earlier call
    pdf_reader,             \* Pdf.pdf_reader: the pages of the pdf of a Pdf object
    _images,                \* Pdf._images: the image kept for a page index
    _rotated,               \* Pdf._rotated: the /Rotate kept for a page index
    rendered                \* the number of calls of image_from_pdf_page so far

\* what __init__ sets and no method changes
doc_vars == <<html, _pages_as_html, _page_to_page_idx, _flows_as_html, _flow_to_id,
              raw_annotations>>

\* the caller's rectangles and the calls of normalize_list_of_rectangles
rect_vars == <<rectangles, call_arg, frames, rest_normalized, first_output>>

\* the pages read by AnnotationExtractor.get_annot_from_pdf
ext_vars == <<pdf_pages, outputs, idx, box_as_list, page_height>>

call_vars == <<args, kept>>

pdf_vars == <<pdf_reader, _images, _rotated, rendered>>

vars == <<doc_vars, _enriched_annotations, pc, transform,
          annotated_flows, annot_idx, words_arg, result, log, rect_vars, ext_vars,
          call_vars, pdf_vars>>

None == <<>>
Some(v) == <<v>>

-----------------------------------------------------------------------------
(* Bounds of the model *)

\* matcher specification: an annotation box has x in 0..MaxCoord, y in 0..MaxCoordY
MaxCoord == 5
MaxCoordY == 2
\* matcher specification: at most this many words on the page
MaxPageWords == 2
\* resolver specification: at most this many words in the document, a flow
\* has 2..MaxResolveFlowWords words, a call gets at most MaxResolveArgs words
MaxResolveWords == 6
MaxResolveFlowWords == 5
MaxResolveArgs == 3
\* aggregator specification: at most this many words in the document
MaxWords == 10
\* aggregator specification: a flow has MaxFlowWords - 1 or MaxFlowWords words
MaxFlowWords == 3
\* aggregator specification: at most this many raw annotations
MaxAnnots == 2
\* rectangle specifications: a rectangle has x in 0..MaxRectCoord and y in
\* 0..MaxRectCoordY, a list at most MaxRectangles rectangles; a coordinate
\* counts 1/CoordsPerUnit
MaxRectCoord == 2
MaxRectCoordY == 1
MaxRectangles == 3
CoordsPerUnit == 2
\* the floats of the model carry FloatBits significant bits
FloatBits == 2
\* the largest coordinate of a /Rect and the largest page height
MaxBoxCoord == 8
\* the largest horizontal coordinate of a /Rect
MaxBoxCoordX == 1
\* the largest number of pages of a pdf handed to the extractor
MaxPdfPages == 3
\* the largest number of words handed to get_indices_of_words
MaxSpanWords == 3
\* the largest number of times a page is rendered into an image
MaxRenders == 3
\* layout produced by the text-layout collaborator
WordsPerLine == 2
LinesPerBlock == 1
FlowsPerPage == 2

-----------------------------------------------------------------------------
(* rectangle.py *)

Rectangle(x_min, y_min, x_max, y_max) ==
    [x_min |-> x_min, y_min |-> y_min, x_max |-> x_max, y_max |-> y_max]

width(self) == self.x_max - self.x_min

height(self) == self.y_max - self.y_min

area(self) == width(self) * height(self)

Max2(a, b) == IF a >= b THEN a ELSE b

Min2(a, b) == IF a <= b THEN a ELSE b

\* (mutant) rectangles that only touch taken as not intersecting
IntersectionOpen(self, other) ==
    LET x_min == Max2(self.x_min, other.x_min)
        y_min == Max2(self.y_min, other.y_min)
        x_max == Min2(self.x_max, other.x_max)
        y_max == Min2(self.y_max, other.y_max)
    IN  IF x_min >= x_max \/ y_min >= y_max
        THEN None
        ELSE Some(Rectangle(x_min, y_min, x_max, y_max))

\* Return intersection Rectangle if nontrivial, else None.
intersection(self, other) ==
    LET x_min == Max2(self.x_min, other.x_min)
        y_min == Max2(self.y_min, other.y_min)
        x_max == Min2(self.x_max, other.x_max)
        y_max == Min2(self.y_max, other.y_max)
    IN  IF x_min > x_max \/ y_min > y_max
        THEN None
        ELSE Some(Rectangle(x_min, y_min, x_max, y_max))

-----------------------------------------------------------------------------
(* Fractions: the floats of the code *)

Frac(n, d) == [num |-> n, den |-> d]

FracGT(a, b) == a.num * b.den > b.num * a.den

FracGE(a, b) == a.num * b.den >= b.num * a.den

-----------------------------------------------------------------------------
(* The html tree of pdftotext -bbox-layout: page > flow > block > line > word.
   html is the sequence of element nodes in document order; an element is its
   position in html. *)

Node(tag, parent, text, attrib) ==
    [tag |-> tag, parent |-> parent, text |-> text, attrib |-> attrib]

NoAttrib == Rectangle(0, 0, 0, 0)

getparent(elem) == html[elem].parent

\* elem is e or lies below e
RECURSIVE IsBelow(_, _)
IsBelow(elem, e) ==
    IF elem = e THEN TRUE
    ELSE IF elem = 0 THEN FALSE
    ELSE IsBelow(html[elem].parent, e)

\* the elements in document order
Elements == [e \in 1..Len(html) |-> e]

\* elem.findall(".//tag"): the descendants with that tag, in document order
findall(elem, tag) ==
    SelectSeq(Elements, LAMBDA e : e # elem /\ html[e].tag = tag /\ IsBelow(e, elem))

\* Pdf.number_of_pages
number_of_pages == Len(SelectSeq(Elements, LAMBDA e : html[e].tag = "page"))

\* Pdf.get_bounding_box_of_elem
get_bounding_box_of_elem(elem) ==
    Rectangle(html[elem].attrib.x_min, html[elem].attrib.y_min,
              html[elem].attrib.x_max, html[elem].attrib.y_max)


-----------------------------------------------------------------------------
(* annotation.py *)

\* Annotation: type is one of the admissible types, text_content is None or
\* Some(string), a string being the sequence of its characters.
Annotation(page, type, box, text_content) ==
    [page |-> page, type |-> type, box |-> box, text_content |-> text_content]

-----------------------------------------------------------------------------
(* annotated_pdf.py: the matcher *)

_match_words_threshold == Frac(4, 10)

_match_words_minimal_threshold == Frac(2, 10)

_enrich_annotation_types == {"rectangle"}

minimal_words_in_document == 10

\* A call's outcome: returned a value, or raised.
Returned(v) == [raised |-> FALSE, value |-> v]

Raised(e) == [raised |-> TRUE, value |-> e]

\* (mutant) the threshold taken as inclusive
ScoreAtLeast(score, threshold) == FracGE(score, threshold)

\* score > threshold
ScoreAbove(score, threshold) == FracGT(score, threshold)

\* (mutant) the intersection taken over the annotation box
WordScoreOverAnnotation(word, one_annotation) ==
    LET word_box == get_bounding_box_of_elem(word)
        annotation_and_box_interection == intersection(word_box, one_annotation.box)
    IN  IF annotation_and_box_interection = None THEN Returned(Frac(0, 1))
        ELSE IF area(one_annotation.box) = 0 THEN Raised("ZeroDivisionError")
        ELSE Returned(Frac(area(annotation_and_box_interection[1]), area(one_annotation.box)))

\* The score of one word in the loop of _get_scored_words:
\* annotation_and_box_interection.area / word_box.area raises ZeroDivisionError
\* when the word box has no area and meets the annotation box.
WordScore(word, one_annotation) ==
    LET word_box == get_bounding_box_of_elem(word)
        annotation_and_box_interection == intersection(word_box, one_annotation.box)
    IN  IF annotation_and_box_interection = None THEN Returned(Frac(0, 1))
        ELSE IF area(word_box) = 0 THEN Raised("ZeroDivisionError")
        ELSE Returned(Frac(area(annotation_and_box_interection[1]), area(word_box)))

\* The loop of _get_scored_words over the words from position i on.
RECURSIVE ScoredWordsFrom(_, _, _, _, _)
ScoredWordsFrom(words_in_page, one_annotation, threshold, i, scored_words) ==
    IF i > Len(words_in_page) THEN Returned(scored_words)
    ELSE
      LET word == words_in_page[i]
          score == WordScore(word, one_annotation)
      IN  IF score.raised THEN score
          ELSE ScoredWordsFrom(words_in_page, one_annotation, threshold, i + 1,
                    IF ScoreAbove(score.value, threshold)
                    THEN Append(scored_words, [word |-> word, score |-> score.value])
                    ELSE scored_words)

_get_scored_words(words_in_page, one_annotation, threshold) ==
    ScoredWordsFrom(words_in_page, one_annotation, threshold, 1, <<>>)

\* max(words, key=itemgetter("score")): the first of the largest
RECURSIVE MaxByScoreFrom(_, _, _)
MaxByScoreFrom(words, i, best) ==
    IF i > Len(words) THEN best
    ELSE MaxByScoreFrom(words, i + 1,
            IF FracGT(words[i].score, best.score) THEN words[i] ELSE best)

MaxByScore(words) == MaxByScoreFrom(words, 2, words[1])

\* What the primary tier's result makes of the call: returned as it is when
\* it holds a word.
PrimaryTierReturns(words) == words # <<>>

\* (mutant) the fallback tier returning the first candidate
FallbackTierFirst(words) == <<words[1]>>

\* What the fallback tier returns from its scored words.
FallbackTierResult(words) == <<MaxByScore(words)>>

\* The outcome's value is [words, warnings]: the returned list and the
\* warnings the call logged.
_find_words_related_to_one_annotation(annotation, words_in_page) ==
    LET first == _get_scored_words(words_in_page, annotation, _match_words_threshold)
    IN  IF first.raised THEN first
        ELSE IF PrimaryTierReturns(first.value)
        THEN Returned([words |-> first.value, warnings |-> <<>>])
        ELSE
          LET second == _get_scored_words(words_in_page, annotation,
                                          _match_words_minimal_threshold)
          IN  IF second.raised THEN second
              ELSE IF second.value # <<>>
              THEN Returned([words |-> FallbackTierResult(second.value),
                             warnings |-> <<"weak match">>])
              ELSE Returned([words |-> <<>>, warnings |-> <<"cannot match">>])


-----------------------------------------------------------------------------
(* rectangle.py: containment, the transforms, get_iou,
   smallest_common_superrectangle and the body of
   normalize_list_of_rectangles *)

\* Rectangle.contains_other, which __contains__ calls
contains_other(self, other) ==
    /\ other.x_min >= self.x_min
    /\ other.x_max <= self.x_max
    /\ other.y_min >= self.y_min
    /\ other.y_max <= self.y_max

\* Rectangle.rescale
rescale(self, multiply_width_by, multiply_height_by) ==
    Rectangle(self.x_min * multiply_width_by, self.y_min * multiply_height_by,
              self.x_max * multiply_width_by, self.y_max * multiply_height_by)

\* int(x) of a coordinate counted in 1/CoordsPerUnit: the fraction is cut off,
\* towards zero
IntOf(v) ==
    IF v >= 0 THEN (v \div CoordsPerUnit) * CoordsPerUnit
    ELSE 0 - (((0 - v) \div CoordsPerUnit) * CoordsPerUnit)

\* Rectangle.to_int
to_int(self) ==
    Rectangle(IntOf(self.x_min), IntOf(self.y_min), IntOf(self.x_max), IntOf(self.y_max))

\* (mutant) the intersection over the sum of the two areas
GetIouOverSum(self, rect) ==
    LET inter == intersection(self, rect)
    IN  IF inter = None THEN Returned(Frac(0, 1))
        ELSE IF area(self) + area(rect) = 0 THEN Raised("ZeroDivisionError")
        ELSE Returned(Frac(area(inter[1]), area(self) + area(rect)))

\* Rectangle.get_iou: inter.area / float(self.area + rect.area - inter.area)
\* raises ZeroDivisionError when the divisor is 0
get_iou(self, rect) ==
    LET inter == intersection(self, rect)
    IN  IF inter = None THEN Returned(Frac(0, 1))
        ELSE IF area(self) + area(rect) - area(inter[1]) = 0
        THEN Raised("ZeroDivisionError")
        ELSE Returned(Frac(area(inter[1]), area(self) + area(rect) - area(inter[1])))

\* (mutant) the first rectangle returned
FirstOfTwo(self, other) == self

\* Rectangle.smallest_common_superrectangle
smallest_common_superrectangle(self, other) ==
    Rectangle(Min2(self.x_min, other.x_min), Min2(self.y_min, other.y_min),
              Max2(self.x_max, other.x_max), Max2(self.y_max, other.y_max))

\* if first.get_iou(rectangles[i]): a number is true unless it is 0
IsTrue(iou) == iou.num # 0

\* The loop of normalize_list_of_rectangles over i (position i + 1 here): the
\* list as the assignments rectangles[i] = ... leave it, first_intersects_some,
\* and whether a get_iou raised on the way.
RECURSIVE NormalizeLoopFrom(_, _, _, _)
NormalizeLoopFrom(list, first, i, first_intersects_some) ==
    IF i > Len(list)
    THEN [raised |-> FALSE, list |-> list, first_intersects_some |-> first_intersects_some]
    ELSE
      LET iou == get_iou(first, list[i])
      IN  IF iou.raised
          THEN [raised |-> TRUE, list |-> list,
                first_intersects_some |-> first_intersects_some]
          ELSE IF IsTrue(iou.value)
          THEN NormalizeLoopFrom(
                   [list EXCEPT ![i] = smallest_common_superrectangle(list[i], first)],
                   first, i + 1, TRUE)
          ELSE NormalizeLoopFrom(list, first, i + 1, first_intersects_some)

\* (mutant) the recursive call on the whole list
WholeList(list) == list

\* rectangles[1:], the argument of the recursive call
RestOf(list) == Tail(list)

\* rest_normalized if first_intersects_some else [first] + rest_normalized
ReturnOfCall(first_intersects_some, first, rest) ==
    IF first_intersects_some THEN rest ELSE <<first>> \o rest

-----------------------------------------------------------------------------
(* annotated_pdf.py: the fields set by __init__ *)

IndexOf(seq, x) == CHOOSE i \in 1..Len(seq) : seq[i] = x

\* [self.get_page_as_html(page_idx).find(".//page")
\*  for page_idx in range(self.number_of_pages)]
PagesAsHtml == SelectSeq(Elements, LAMBDA e : html[e].tag = "page")

\* {page: page_idx for page_idx, page in enumerate(self._pages_as_html)}
PageToPageIdx(pages) ==
    [page \in {pages[i] : i \in 1..Len(pages)} |-> IndexOf(pages, page) - 1]

\* sum([page.findall(".//flow") for page in self._pages_as_html], [])
RECURSIVE FlowsFromPage(_, _)
FlowsFromPage(pages, i) ==
    IF i > Len(pages) THEN <<>>
    ELSE findall(pages[i], "flow") \o FlowsFromPage(pages, i + 1)

FlowsAsHtml(pages) == FlowsFromPage(pages, 1)

\* {flow: _id for _id, flow in enumerate(self._flows_as_html)}
FlowToId(flows) ==
    [flow \in {flows[i] : i \in 1..Len(flows)} |-> IndexOf(flows, flow) - 1]

\* no rectangle operation and no extraction is part of the specification
NoRectangles ==
    /\ rectangles = <<>>
    /\ call_arg = <<>>
    /\ frames = <<>>
    /\ rest_normalized = <<>>
    /\ first_output = None

NoExtraction ==
    /\ pdf_pages = <<>>
    /\ outputs = <<>>
    /\ idx = 0
    /\ box_as_list = <<>>
    /\ page_height = 0

NoCall == args = <<>> /\ kept = None

NoPdf ==
    /\ pdf_reader = <<>>
    /\ _images = <<>>
    /\ _rotated = <<>>
    /\ rendered = 0

\* AnnotatedPdf.__init__, the document and its annotations read
InitFields ==
    /\ _pages_as_html = PagesAsHtml
    /\ _page_to_page_idx = PageToPageIdx(_pages_as_html)
    /\ _flows_as_html = FlowsAsHtml(_pages_as_html)
    /\ _flow_to_id = FlowToId(_flows_as_html)
    /\ _enriched_annotations = None

-----------------------------------------------------------------------------
(* A dict that keeps the order of insertion: a sequence of [key, value] *)

DictHas(d, k) == \E i \in 1..Len(d) : d[i].key = k

DictGet(d, k) == d[CHOOSE i \in 1..Len(d) : d[i].key = k].value

DictSet(d, k, v) ==
    IF DictHas(d, k)
    THEN [i \in 1..Len(d) |-> IF d[i].key = k THEN [key |-> k, value |-> v] ELSE d[i]]
    ELSE Append(d, [key |-> k, value |-> v])

\* defaultdict(list): a function from the keys present to their lists
EmptyDefaultDict == [k \in {} |-> <<>>]

\* d[k] += xs
DefaultDictExtend(d, k, xs) ==
    [x \in (DOMAIN d) \cup {k} |->
        IF x = k THEN (IF k \in DOMAIN d THEN d[k] ELSE <<>>) \o xs ELSE d[x]]

-----------------------------------------------------------------------------
(* annotated_pdf.py: enriched_annotations *)

\* (mutant) every type enriched
AnyType(type) == TRUE

\* annot.type in self._enrich_annotation_types
IsEnrichedType(type) == type \in _enrich_annotation_types

\* The loop of _match_annotations_with_words from raw annotation i on; the
\* outcome's value is [list, warnings].
RECURSIVE MatchAnnotationsFrom(_, _, _)
MatchAnnotationsFrom(i, matched_annotations, warnings) ==
    IF i > Len(raw_annotations)
    THEN Returned([list |-> matched_annotations, warnings |-> warnings])
    ELSE
      LET annot == raw_annotations[i]
      IN  IF ~IsEnrichedType(annot.type)
          THEN MatchAnnotationsFrom(i + 1, matched_annotations, warnings)
          ELSE
            LET found == _find_words_related_to_one_annotation(
                             annot, findall(_pages_as_html[annot.page + 1], "word"))
            IN  IF found.raised THEN found
                ELSE MatchAnnotationsFrom(i + 1,
                        Append(matched_annotations,
                               [annotation |-> annot, words |-> found.value.words]),
                        warnings \o found.value.warnings)

_match_annotations_with_words == MatchAnnotationsFrom(1, <<>>, <<>>)

\* The property enriched_annotations: the outcome's value is
\* [list, cache, warnings], cache the new value of _enriched_annotations.
enriched_annotations ==
    IF _enriched_annotations = None
    THEN LET out == _match_annotations_with_words
         IN  IF out.raised THEN out
             ELSE Returned([list |-> out.value.list, cache |-> Some(out.value.list),
                            warnings |-> out.value.warnings])
    ELSE Returned([list |-> _enriched_annotations[1], cache |-> _enriched_annotations,
                   warnings |-> <<>>])

-----------------------------------------------------------------------------
(* annotated_pdf.py: _get_neighborhood_of_words *)

\* (mutant) the parent two levels up, a block
BlockAncestor(w) == getparent(getparent(w))

\* grand-grand-parents of a word is a flow
FlowAncestor(w) == getparent(getparent(getparent(w)))

InList(x, list) == \E i \in 1..Len(list) : list[i] = x

\* (mutant) the positions counted from 1
RECURSIVE NeighborhoodIndicesFromOne(_, _, _, _)
NeighborhoodIndicesFromOne(section, words, i, annotated_indices) ==
    IF i > Len(section) THEN annotated_indices
    ELSE NeighborhoodIndicesFromOne(section, words, i + 1,
            IF InList(section[i], words)
            THEN Append(annotated_indices, i) ELSE annotated_indices)

\* for i, word in enumerate(ancestor.findall(".//word")): the indices of the
\* words of the section that are in words (i is the position from 1)
RECURSIVE NeighborhoodIndices(_, _, _, _)
NeighborhoodIndices(section, words, i, annotated_indices) ==
    IF i > Len(section) THEN annotated_indices
    ELSE NeighborhoodIndices(section, words, i + 1,
            IF InList(section[i], words)
            THEN Append(annotated_indices, i - 1) ELSE annotated_indices)

\* list(range(lo, hi + 1))
RangeList(lo, hi) == [i \in 1..(hi - lo + 1) |-> lo + i - 1]

SeqMin(list) == CHOOSE x \in {list[i] : i \in 1..Len(list)} :
                    \A i \in 1..Len(list) : x <= list[i]

SeqMax(list) == CHOOSE x \in {list[i] : i \in 1..Len(list)} :
                    \A i \in 1..Len(list) : x >= list[i]

\* annotated_indices == list(range(min(annotated_indices), max(annotated_indices) + 1))
IsConnected(annotated_indices) ==
    annotated_indices = RangeList(SeqMin(annotated_indices), SeqMax(annotated_indices))

\* The outcome's value is [neighborhood, warnings]: neighborhood is None or
\* the dict with keys flow, words, indices.
_get_neighborhood_of_words(words) ==
    IF words = <<>> THEN Raised("AssertionError")
    ELSE
      LET parents == [i \in 1..Len(words) |-> FlowAncestor(words[i])]
      IN  IF Cardinality({parents[i] : i \in 1..Len(parents)}) # 1
          THEN Returned([neighborhood |-> None, warnings |-> <<"different flows">>])
          ELSE
            LET ancestor == parents[1]
                section == findall(ancestor, "word")
                annotated_indices == NeighborhoodIndices(section, words, 1, <<>>)
                words_in_section == [i \in 1..Len(section) |-> html[section[i]].text]
            IN  Returned([neighborhood |-> Some([flow |-> ancestor,
                                                  words |-> words_in_section,
                                                  indices |-> annotated_indices]),
                          warnings |-> IF IsConnected(annotated_indices)
                                       THEN <<>> ELSE <<"not connected">>])

-----------------------------------------------------------------------------
(* annotated_pdf.py: get_flows_with_annotations *)

\* sum(len(v) for v in self.get_pages().values())
RECURSIVE WordsFromPage(_)
WordsFromPage(i) ==
    IF i > number_of_pages THEN 0
    ELSE Len(findall(_pages_as_html[i], "word")) + WordsFromPage(i + 1)

nr_words == WordsFromPage(1)

\* (mutant) the guard taken as inclusive
TooFewWordsOrJustEnough(n) == n <= minimal_words_in_document

\* nr_words < self.minimal_words_in_document
TooFewWords(n) == n < minimal_words_in_document

\* (mutant) pages counted from 1
PageNumberOfFlow(flow) == _page_to_page_idx[getparent(flow)] + 1

\* self._page_to_page_idx[flow.getparent()]
PageIdxOfFlow(flow) == _page_to_page_idx[getparent(flow)]

RECURSIVE InitializeFlowsFrom(_, _)
InitializeFlowsFrom(i, flows) ==
    IF i > Len(_flows_as_html) THEN flows
    ELSE
      LET flow == _flows_as_html[i]
          flow_id == _flow_to_id[flow]
          section == findall(flow, "word")
      IN  InitializeFlowsFrom(i + 1,
            DictSet(flows, flow_id,
                    [words |-> [k \in 1..Len(section) |-> html[section[k]].text],
                     page |-> PageIdxOfFlow(flow),
                     annotated_indices |-> EmptyDefaultDict]))

_initialize_flows == InitializeFlowsFrom(1, <<>>)

\* The caller's transform_anno_text_description: the identity (the default)
\* or the test suite's lambda text: text.lower()[0].
Lower(c) == IF c = "R" THEN "r" ELSE IF c = "C" THEN "c" ELSE c

ApplyTransform(f, text) ==
    IF f = "identity" THEN text ELSE <<Lower(text[1])>>

Transforms == {"identity", "lower_first"}

\* not annot_text_content
IsEmptyText(text_content) == text_content = None \/ text_content = Some(<<>>)

\* (mutant) the indices stored in place of the list
ReplacedIndices(d, k, xs) == [x \in (DOMAIN d) \cup {k} |-> IF x = k THEN xs ELSE d[x]]

\* annotated_flows[current_flow_id]["annotated_indices"][annot_description] += indices
AddIndices(d, k, xs) == DefaultDictExtend(d, k, xs)

\* The body of the loop over enriched_annotations for one annotation: the
\* value is [flows, warnings].
AggregateOne(annot, flows, f) ==
    IF annot.words = <<>>
    THEN [flows |-> flows, warnings |-> <<"no words">>]
    ELSE
      LET words == [i \in 1..Len(annot.words) |-> annot.words[i].word]
          got == _get_neighborhood_of_words(words).value
          neighborhood == got.neighborhood
      IN  IF neighborhood = None
          THEN [flows |-> flows,
                warnings |-> got.warnings \o <<"cannot get ancestor flow">>]
          ELSE
            LET current_flow_id == _flow_to_id[neighborhood[1].flow]
                annot_text_content == annot.annotation.text_content
            IN  IF IsEmptyText(annot_text_content)
                THEN [flows |-> flows, warnings |-> got.warnings \o <<"empty text_content">>]
                ELSE
                  LET annot_description == ApplyTransform(f, annot_text_content[1])
                      record == DictGet(flows, current_flow_id)
                  IN  [flows |-> DictSet(flows, current_flow_id,
                                    [record EXCEPT !.annotated_indices =
                                        AddIndices(@, annot_description,
                                                   neighborhood[1].indices)]),
                       warnings |-> got.warnings]

-----------------------------------------------------------------------------
(* The documents of the model: what the text-layout collaborator hands over *)

Vocab == <<"Being", "killed", "at", "train", "station", "Insurance">>

TextOf(j) == Vocab[(j % Len(Vocab)) + 1]

\* The tree of a document whose words have the given boxes, flowLen words to a
\* flow: the nodes in document order, word j (from 0) following the nodes of
\* the page, flow, block and line it opens.
RECURSIVE BuildFrom(_, _, _, _, _, _, _, _)
BuildFrom(boxes, flowLen, j, nodes, page, flow, block, line) ==
    IF j >= Len(boxes) THEN nodes
    ELSE
      LET q == j % flowLen
          n1 == IF j % (flowLen * FlowsPerPage) = 0
                THEN Append(nodes, Node("page", 0, "", NoAttrib)) ELSE nodes
          page1 == IF Len(n1) > Len(nodes) THEN Len(n1) ELSE page
          n2 == IF q = 0 THEN Append(n1, Node("flow", page1, "", NoAttrib)) ELSE n1
          flow1 == IF Len(n2) > Len(n1) THEN Len(n2) ELSE flow
          n3 == IF q % (WordsPerLine * LinesPerBlock) = 0
                THEN Append(n2, Node("block", flow1, "", NoAttrib)) ELSE n2
          block1 == IF Len(n3) > Len(n2) THEN Len(n3) ELSE block
          n4 == IF q % WordsPerLine = 0
                THEN Append(n3, Node("line", block1, "", NoAttrib)) ELSE n3
          line1 == IF Len(n4) > Len(n3) THEN Len(n4) ELSE line
          n5 == Append(n4, Node("word", line1, TextOf(j), boxes[j + 1]))
      IN  BuildFrom(boxes, flowLen, j + 1, n5, page1, flow1, block1, line1)

\* A document without words is one page without flows.
BuildHtml(boxes, flowLen) ==
    IF boxes = <<>> THEN <<Node("page", 0, "", NoAttrib)>>
    ELSE BuildFrom(boxes, flowLen, 0, <<>>, 0, 0, 0, 0)

SeqsUpTo(S, n) == UNION {[1..k -> S] : k \in 0..n}

-----------------------------------------------------------------------------
(* Specification of the matcher: one annotation against the words of a page *)

\* word boxes: of area 10, 4 and 5, without width, without height, and with
\* the bounds swapped
MatchWordBoxes ==
    { Rectangle(0, 0, 5, 2), Rectangle(1, 0, 5, 1), Rectangle(0, 1, 5, 2),
      Rectangle(2, 0, 2, 2), Rectangle(3, 1, 5, 1), Rectangle(4, 0, 1, 1) }

\* annotation boxes: every box of the grid with y_min <= y_max, those with
\* x_min > x_max included
MatchAnnotBoxes ==
    { r \in { Rectangle(x1, y1, x2, y2) :
                x1 \in 0..MaxCoord, x2 \in 0..MaxCoord,
                y1 \in 0..MaxCoordY, y2 \in 0..MaxCoordY } : r.y_min <= r.y_max }

InitMatch ==
    /\ \E boxes \in SeqsUpTo(MatchWordBoxes, MaxPageWords) :
          html = BuildHtml(boxes, MaxPageWords + 1)
    /\ \E box \in MatchAnnotBoxes :
          raw_annotations = <<Annotation(0, "rectangle", box, Some(<<"r">>))>>
    /\ InitFields
    /\ NoRectangles
    /\ NoExtraction
    /\ NoCall
    /\ NoPdf
    /\ pc = "match"
    /\ transform = "identity"
    /\ annotated_flows = <<>>
    /\ annot_idx = 0
    /\ words_arg = <<>>
    /\ result = Returned(<<>>)
    /\ log = <<>>

\* A call of _find_words_related_to_one_annotation with the words of the page
FindWordsCall ==
    /\ pc = "match"
    /\ LET out == _find_words_related_to_one_annotation(
                      raw_annotations[1], findall(_pages_as_html[1], "word"))
       IN  /\ result' = out
           /\ log' = IF out.raised THEN <<>> ELSE out.value.warnings
    /\ pc' = "matched"
    /\ UNCHANGED <<rect_vars, ext_vars, doc_vars, call_vars, pdf_vars, _enriched_annotations, transform,
                   annotated_flows, annot_idx, words_arg>>

NextMatch == FindWordsCall

SpecMatch == InitMatch /\ [][NextMatch]_vars


-----------------------------------------------------------------------------
(* The geometry the claims speak of, counted on the integer grid: a box is
   the set of its points, its area the number of its unit cells. *)

Points(box) ==
    {<<x, y>> : x \in box.x_min..box.x_max, y \in box.y_min..box.y_max}

Cells(box) ==
    {<<x, y>> : x \in box.x_min..(box.x_max - 1), y \in box.y_min..(box.y_max - 1)}

CellArea(box) == Cardinality(Cells(box))

CoveredArea(box, by) == Cardinality(Cells(box) \cap Cells(by))

Disjoint(box, other) == Points(box) \cap Points(other) = {}

FullyCovered(box, by) == Points(box) # {} /\ Points(box) \subseteq Points(by)

BoxOf(word) == html[word].attrib

\* area(word.box /\ annotation.box) / area(word.box), 0 for a word box that
\* does not meet the annotation box
CoverageScore(word, annotation) ==
    IF Disjoint(BoxOf(word), annotation.box) \/ CellArea(BoxOf(word)) = 0
    THEN Frac(0, 1)
    ELSE Frac(CoveredArea(BoxOf(word), annotation.box), CellArea(BoxOf(word)))

FracEq(a, b) == a.num * b.den = b.num * a.den

PrimaryThreshold == Frac(4, 10)

MinimalThreshold == Frac(2, 10)

\* the words of a list whose coverage score is above t, in the order of the list
WordsAbove(words, annotation, t) ==
    SelectSeq(words, LAMBDA w : FracGT(CoverageScore(w, annotation), t))

-----------------------------------------------------------------------------
(* Claims on the matcher, checked under SpecMatch *)

MatchAnnot == raw_annotations[1]

MatchPageWords == findall(_pages_as_html[1], "word")

MatchReturned == pc = "matched" /\ ~result.raised

\* C1: whenever some word of the page has a coverage score above 0.4, the
\* matcher returns exactly the words whose score is above 0.4, all of them,
\* in page order, each with its score.
C1_PrimaryTierReturnsAllStrongWords ==
    LET strong == WordsAbove(MatchPageWords, MatchAnnot, PrimaryThreshold)
    IN  (MatchReturned /\ strong # <<>>) =>
            /\ Len(result.value.words) = Len(strong)
            /\ \A k \in 1..Len(strong) :
                  /\ result.value.words[k].word = strong[k]
                  /\ FracEq(result.value.words[k].score,
                            CoverageScore(strong[k], MatchAnnot))

\* two words returned by the primary tier beside a case with a word left out
C1_Witness ==
    /\ MatchReturned
    /\ Len(MatchPageWords) = 2
    /\ Len(result.value.words) = 2
    /\ result.value.words[1].word < result.value.words[2].word
    /\ ~FracEq(result.value.words[1].score, result.value.words[2].score)

\* C2: the fallback tier is used only when no word of the page scores above
\* 0.4, and it then returns exactly one word, which has the highest score
\* among the words of the page.
C2_FallbackOnlyWithoutStrongWordReturnsTheBest ==
    (MatchReturned /\ log = <<"weak match">>) =>
        /\ WordsAbove(MatchPageWords, MatchAnnot, PrimaryThreshold) = <<>>
        /\ Len(result.value.words) = 1
        /\ \E k \in 1..Len(MatchPageWords) : result.value.words[1].word = MatchPageWords[k]
        /\ FracGT(CoverageScore(result.value.words[1].word, MatchAnnot), MinimalThreshold)
        /\ \A k \in 1..Len(MatchPageWords) :
              FracGE(CoverageScore(result.value.words[1].word, MatchAnnot),
                     CoverageScore(MatchPageWords[k], MatchAnnot))

\* the fallback tier picked the second word of the page, the first one
\* scoring above 0.2 as well but lower
C2_Witness ==
    /\ MatchReturned
    /\ log = <<"weak match">>
    /\ Len(MatchPageWords) = 2
    /\ result.value.words[1].word = MatchPageWords[2]
    /\ FracGT(CoverageScore(MatchPageWords[1], MatchAnnot), MinimalThreshold)

-----------------------------------------------------------------------------
(* The documents of the aggregator and resolver specifications: the words
   lie on a grid, WordsPerLine to a line, a word 5 wide and 2 high, the
   columns 6 and the lines 3 apart. *)

LinesPerFlow(flowLen) == (flowLen + WordsPerLine - 1) \div WordsPerLine

\* the box of word j (from 0) of the document; with zeroWidth the second word
\* of the document has no width
GridBox(j, flowLen, zeroWidth) ==
    LET jp == j % (flowLen * FlowsPerPage)
        q == jp % flowLen
        row == (jp \div flowLen) * LinesPerFlow(flowLen) + (q \div WordsPerLine)
        col == q % WordsPerLine
    IN  Rectangle(6 * col, 3 * row,
                  IF zeroWidth /\ j = 1 THEN 6 * col ELSE 6 * col + 5, 3 * row + 2)

GridBoxes(n, flowLen, zeroWidth) == [k \in 1..n |-> GridBox(k - 1, flowLen, zeroWidth)]

WordElements == {e \in 1..Len(html) : html[e].tag = "word"}

Risk == <<"r", "i", "s", "k">>

RiskCapital == <<"R", "i", "s", "k">>

\* where an annotation lies: the first line of page 0, the first column of the
\* first two lines of page 0, and across the column gap of the third line of
\* page 1
AnnotPlaces ==
    { [page |-> 0, box |-> Rectangle(0, 0, 11, 2)],
      [page |-> 0, box |-> Rectangle(0, 0, 5, 5)],
      [page |-> 1, box |-> Rectangle(3, 6, 7, 8)] }

AnnotKinds ==
    { [type |-> "rectangle", text_content |-> Some(Risk)],
      [type |-> "rectangle", text_content |-> Some(RiskCapital)],
      [type |-> "rectangle", text_content |-> Some(<<>>)],
      [type |-> "oval", text_content |-> Some(Risk)] }

AnnotChoices ==
    { Annotation(p.page, k.type, p.box, k.text_content) : p \in AnnotPlaces, k \in AnnotKinds }

\* the numbers of words of a document: none, and around the minimum
DocWordCounts == {0} \cup ((minimal_words_in_document - 1)..MaxWords)

-----------------------------------------------------------------------------
(* Specification of AnnotatedPdf: the state after __init__, and the calls of
   enriched_annotations and get_flows_with_annotations *)

\* get_annot_from_pdf extracts page by page: the annotations are in page
\* order, on pages of the document.
Init ==
    /\ \E n \in DocWordCounts, flowLen \in (MaxFlowWords - 1)..MaxFlowWords,
          zeroWidth \in BOOLEAN :
          html = BuildHtml(GridBoxes(n, flowLen, zeroWidth), flowLen)
    /\ raw_annotations \in SeqsUpTo(AnnotChoices, MaxAnnots)
    /\ \A i \in 1..Len(raw_annotations) :
          /\ raw_annotations[i].page < number_of_pages
          /\ i > 1 => raw_annotations[i - 1].page <= raw_annotations[i].page
    /\ InitFields
    /\ NoRectangles
    /\ NoExtraction
    /\ NoCall
    /\ NoPdf
    /\ pc = "idle"
    /\ transform = "identity"
    /\ annotated_flows = <<>>
    /\ annot_idx = 0
    /\ words_arg = <<>>
    /\ result = Returned(<<>>)
    /\ log = <<>>

Idle == pc \in {"idle", "enriched_done", "flows_done"}

\* A read of the property enriched_annotations
ReadEnrichedAnnotations ==
    /\ Idle
    /\ \E out \in {enriched_annotations} :
          IF out.raised
          THEN /\ result' = out
               /\ log' = <<>>
               /\ UNCHANGED _enriched_annotations
          ELSE /\ result' = Returned(out.value.list)
               /\ log' = out.value.warnings
               /\ _enriched_annotations' = out.value.cache
    /\ pc' = "enriched_done"
    /\ UNCHANGED <<rect_vars, ext_vars, doc_vars, call_vars, pdf_vars, transform, annotated_flows, annot_idx, words_arg>>

\* (mutant) the flows of the call before, where there are any, taken up again
GetFlowsCallOnEarlierFlows ==
    /\ Idle
    /\ \E f \in Transforms :
          /\ transform' = f
          /\ IF TooFewWords(nr_words)
             THEN /\ result' = Returned(<<>>)
                  /\ log' = <<"no words">>
                  /\ pc' = "flows_done"
                  /\ UNCHANGED <<_enriched_annotations, annotated_flows, annot_idx>>
             ELSE \E out \in {enriched_annotations} :
                      IF out.raised
                      THEN /\ result' = out
                           /\ log' = <<>>
                           /\ pc' = "flows_done"
                           /\ UNCHANGED <<_enriched_annotations, annotated_flows, annot_idx>>
                      ELSE /\ result' = Returned(<<>>)
                           /\ log' = out.value.warnings
                           /\ pc' = "loop"
                           /\ _enriched_annotations' = out.value.cache
                           /\ annotated_flows' = IF pc = "flows_done" /\ ~result.raised
                                                 THEN result.value
                                                 ELSE _initialize_flows
                           /\ annot_idx' = 1
    /\ UNCHANGED <<rect_vars, ext_vars, doc_vars, call_vars, pdf_vars, words_arg>>

\* get_flows_with_annotations(f) up to its loop: the guard, _initialize_flows
\* and the read of enriched_annotations
GetFlowsCall ==
    /\ Idle
    /\ \E f \in Transforms :
          /\ transform' = f
          /\ IF TooFewWords(nr_words)
             THEN /\ result' = Returned(<<>>)
                  /\ log' = <<"no words">>
                  /\ pc' = "flows_done"
                  /\ UNCHANGED <<_enriched_annotations, annotated_flows, annot_idx>>
             ELSE \E out \in {enriched_annotations} :
                      IF out.raised
                      THEN /\ result' = out
                           /\ log' = <<>>
                           /\ pc' = "flows_done"
                           /\ UNCHANGED <<_enriched_annotations, annotated_flows, annot_idx>>
                      ELSE /\ result' = Returned(<<>>)
                           /\ log' = out.value.warnings
                           /\ pc' = "loop"
                           /\ _enriched_annotations' = out.value.cache
                           /\ annotated_flows' = _initialize_flows
                           /\ annot_idx' = 1
    /\ UNCHANGED <<rect_vars, ext_vars, doc_vars, call_vars, pdf_vars, words_arg>>

\* (mutant) a skipped annotation ends the loop
GetFlowsStepBreak ==
    /\ pc = "loop"
    /\ annot_idx <= Len(_enriched_annotations[1])
    /\ \E step \in {AggregateOne(_enriched_annotations[1][annot_idx], annotated_flows, transform)} :
          /\ annotated_flows' = step.flows
          /\ log' = log \o step.warnings
          /\ annot_idx' = IF step.flows = annotated_flows
                          THEN Len(_enriched_annotations[1]) + 1
                          ELSE annot_idx + 1
    /\ UNCHANGED <<rect_vars, ext_vars, doc_vars, call_vars, pdf_vars, _enriched_annotations, pc, transform,
                   words_arg, result>>

\* One pass of the loop over the enriched annotations
GetFlowsStep ==
    /\ pc = "loop"
    /\ annot_idx <= Len(_enriched_annotations[1])
    /\ \E step \in {AggregateOne(_enriched_annotations[1][annot_idx], annotated_flows, transform)} :
          /\ annotated_flows' = step.flows
          /\ log' = log \o step.warnings
    /\ annot_idx' = annot_idx + 1
    /\ UNCHANGED <<rect_vars, ext_vars, doc_vars, call_vars, pdf_vars, _enriched_annotations, pc, transform,
                   words_arg, result>>

\* return annotated_flows
GetFlowsReturn ==
    /\ pc = "loop"
    /\ annot_idx > Len(_enriched_annotations[1])
    /\ result' = Returned(annotated_flows)
    /\ annotated_flows' = <<>>
    /\ annot_idx' = 0
    /\ pc' = "flows_done"
    /\ UNCHANGED <<rect_vars, ext_vars, doc_vars, call_vars, pdf_vars, _enriched_annotations, transform, words_arg, log>>

Next ==
    \/ ReadEnrichedAnnotations
    \/ GetFlowsCall
    \/ GetFlowsStep
    \/ GetFlowsReturn

Spec == Init /\ [][Next]_vars

\* The caller keeps what a call returned, to compare it with what later
\* calls return.
KeepResult ==
    /\ pc \in {"enriched_done", "flows_done"}
    /\ ~result.raised
    /\ kept = None
    /\ kept' = Some([pc |-> pc, transform |-> transform, value |-> result.value])
    /\ UNCHANGED <<args, rect_vars, ext_vars, doc_vars, pdf_vars, _enriched_annotations,
                   transform, annotated_flows, annot_idx, words_arg, log, pc, result>>

NextRepeated ==
    \/ Next
    \/ KeepResult

\* a document of the largest number of words, and its annotations
InitRepeated == Init /\ nr_words = MaxWords

\* the calls of Spec, repeated by a caller that compares their results
SpecRepeated == InitRepeated /\ [][NextRepeated]_vars

-----------------------------------------------------------------------------
(* Specification of the resolver: _get_neighborhood_of_words on a list of
   words of a document, in any order *)

InitResolve ==
    /\ \E n \in 1..MaxResolveWords, flowLen \in 2..MaxResolveFlowWords :
          html = BuildHtml(GridBoxes(n, flowLen, FALSE), flowLen)
    /\ raw_annotations = <<>>
    /\ InitFields
    /\ NoRectangles
    /\ NoExtraction
    /\ NoCall
    /\ NoPdf
    /\ pc = "resolve"
    /\ transform = "identity"
    /\ annotated_flows = <<>>
    /\ annot_idx = 0
    /\ words_arg = <<>>
    /\ result = Returned(<<>>)
    /\ log = <<>>

ResolveCall ==
    /\ pc = "resolve"
    /\ \E words \in SeqsUpTo(WordElements, MaxResolveArgs) :
          /\ words_arg' = words
          /\ LET out == _get_neighborhood_of_words(words)
             IN  /\ result' = out
                 /\ log' = IF out.raised THEN <<>> ELSE out.value.warnings
    /\ pc' = "resolved"
    /\ UNCHANGED <<rect_vars, ext_vars, doc_vars, call_vars, pdf_vars, _enriched_annotations, transform,
                   annotated_flows, annot_idx>>

NextResolve == ResolveCall

SpecResolve == InitResolve /\ [][NextResolve]_vars

-----------------------------------------------------------------------------
(* The document as the claims speak of it: the elements by tag, an element's
   enclosing page or flow, the words below an element in document order *)

ElementsWithTag(tag) == SelectSeq(Elements, LAMBDA e : html[e].tag = tag)

WordsBelow(elem) ==
    SelectSeq(Elements, LAMBDA e : html[e].tag = "word" /\ IsBelow(e, elem))

TextsOf(words) == [k \in 1..Len(words) |-> html[words[k]].text]

\* the page with index p, pages counted from 0
PageElement(p) == ElementsWithTag("page")[p + 1]

EnclosingFlow(elem) ==
    CHOOSE e \in 1..Len(html) : html[e].tag = "flow" /\ IsBelow(elem, e)

EnclosingPage(elem) ==
    CHOOSE e \in 1..Len(html) : html[e].tag = "page" /\ IsBelow(elem, e)

\* the number of pages before the page of elem
PageIndexOf(elem) ==
    Cardinality({e \in 1..Len(html) : html[e].tag = "page" /\ e < EnclosingPage(elem)})

NumberOfWords == Cardinality(WordElements)

-----------------------------------------------------------------------------
(* Claims on enriched_annotations, checked under Spec *)

RectangleAnnotations == SelectSeq(raw_annotations, LAMBDA a : a.type = "rectangle")

\* C4: once enriched_annotations has been computed it holds one entry for
\* each raw annotation of type rectangle, in the order of raw_annotations,
\* and none for the other types; an annotation no word of its page covers
\* with a score above 0.2 is kept, with an empty list of words; a read of the
\* property returns that list, empty for a document without annotations.
C4_OneEntryPerRectangleAnnotationInOrder ==
    _enriched_annotations # None =>
        LET list == _enriched_annotations[1]
            rect == RectangleAnnotations
        IN  /\ Len(list) = Len(rect)
            /\ \A k \in 1..Len(rect) :
                  /\ list[k].annotation = rect[k]
                  /\ WordsAbove(WordsBelow(PageElement(rect[k].page)), rect[k],
                                MinimalThreshold) = <<>>
                        => list[k].words = <<>>
                  /\ list[k].words = <<>>
                        => WordsAbove(WordsBelow(PageElement(rect[k].page)), rect[k],
                                      MinimalThreshold) = <<>>
            /\ raw_annotations = <<>> => list = <<>>
            /\ (pc = "enriched_done" /\ ~result.raised) => result.value = list

\* a document of ten words with an oval and a rectangle annotation, the
\* rectangle over no word: one entry, without words
C4_Witness ==
    /\ pc = "enriched_done"
    /\ ~result.raised
    /\ NumberOfWords = minimal_words_in_document
    /\ Len(raw_annotations) = 2
    /\ raw_annotations[1].type = "oval"
    /\ raw_annotations[2].type = "rectangle"
    /\ Len(result.value) = 1
    /\ result.value[1].annotation = raw_annotations[2]
    /\ result.value[1].words = <<>>
    /\ log = <<"cannot match">>

-----------------------------------------------------------------------------
(* Claims on _get_neighborhood_of_words, checked under SpecResolve *)

Resolved == pc = "resolved" /\ ~result.raised

\* the enclosing flows of the words handed to the resolver
FlowsOfWords(words) == {EnclosingFlow(words[i]) : i \in 1..Len(words)}

\* the positions, from 0, of the words of the flow that are among words, in
\* ascending order
PositionsIn(flow, words) ==
    LET section == WordsBelow(flow)
        hit == SelectSeq([k \in 1..Len(section) |-> k],
                         LAMBDA k : \E i \in 1..Len(words) : words[i] = section[k])
    IN  [i \in 1..Len(hit) |-> hit[i] - 1]

\* the sequence holds every number from its least to its largest
Contiguous(indices) ==
    \A x \in SeqMin(indices)..SeqMax(indices) :
        \E i \in 1..Len(indices) : indices[i] = x

\* C5: the resolver returns none whenever the words do not all lie in the
\* same flow, and a neighborhood whose flow is the flow enclosing the words
\* whenever they all lie in one flow.
C5_NoneUnlessOneCommonFlow ==
    Resolved =>
        IF Cardinality(FlowsOfWords(words_arg)) # 1
        THEN /\ result.value.neighborhood = None
             /\ log = <<"different flows">>
        ELSE /\ result.value.neighborhood # None
             /\ result.value.neighborhood[1].flow \in FlowsOfWords(words_arg)
             /\ html[result.value.neighborhood[1].flow].tag = "flow"

\* three words, the first two of one flow and the third of another
C5_Witness ==
    /\ Resolved
    /\ Len(words_arg) = 3
    /\ EnclosingFlow(words_arg[1]) = EnclosingFlow(words_arg[2])
    /\ words_arg[1] # words_arg[2]
    /\ EnclosingFlow(words_arg[3]) # EnclosingFlow(words_arg[1])
    /\ result.value.neighborhood = None

\* C6: for words of a single flow the resolver returns the texts of all the
\* words of the flow in document order and the positions, ascending and
\* without repetition, of exactly the words of the flow that are in the input
\* list, whatever the order of the input list; it warns 'not connected'
\* exactly when the positions are not the whole range from the least to the
\* largest, and returns them then too.
C6_IndicesAscendingWarningIffNotContiguous ==
    (Resolved /\ Cardinality(FlowsOfWords(words_arg)) = 1) =>
        LET flow == EnclosingFlow(words_arg[1])
            neighborhood == result.value.neighborhood[1]
        IN  /\ neighborhood.words = TextsOf(WordsBelow(flow))
            /\ neighborhood.indices = PositionsIn(flow, words_arg)
            /\ \A i \in 1..Len(neighborhood.indices), j \in 1..Len(neighborhood.indices) :
                  i < j => neighborhood.indices[i] < neighborhood.indices[j]
            /\ {neighborhood.indices[i] + 1 : i \in 1..Len(neighborhood.indices)}
                  = {k \in 1..Len(WordsBelow(flow)) :
                        \E i \in 1..Len(words_arg) : words_arg[i] = WordsBelow(flow)[k]}
            /\ log = IF Contiguous(neighborhood.indices) THEN <<>> ELSE <<"not connected">>

\* the 5th, 3rd and 4th word of a flow, in that order: [2, 3, 4], no warning
C6_Witness ==
    /\ Resolved
    /\ Len(words_arg) = 3
    /\ Cardinality(FlowsOfWords(words_arg)) = 1
    /\ words_arg[1] > words_arg[2]
    /\ words_arg[2] < words_arg[3]
    /\ words_arg[1] > words_arg[3]
    /\ result.value.neighborhood[1].indices = <<2, 3, 4>>
    /\ Len(result.value.neighborhood[1].words) = 5
    /\ log = <<>>

-----------------------------------------------------------------------------
(* Claims on get_flows_with_annotations, checked under Spec *)

\* a call of get_flows_with_annotations has returned
FlowsReturned == pc = "flows_done" /\ ~result.raised

GuardPassed == NumberOfWords >= minimal_words_in_document

\* the matched words of an entry of enriched_annotations
EntryWords(entry) == [i \in 1..Len(entry.words) |-> entry.words[i].word]

HasText(entry) ==
    /\ entry.annotation.text_content # None
    /\ entry.annotation.text_content # Some(<<>>)

\* the annotation has matched words, all of them in that flow, and a text
ResolvesTo(entry, flow) ==
    /\ entry.words # <<>>
    /\ FlowsOfWords(EntryWords(entry)) = {flow}
    /\ HasText(entry)

\* what the caller's normalization makes of the annotation's text
Description(entry, f) == ApplyTransform(f, entry.annotation.text_content[1])

\* the index lists of the entries from i on that resolve to the flow under
\* the description d, one after the other
RECURSIVE ConcatIndicesFrom(_, _, _, _, _)
ConcatIndicesFrom(list, i, flow, d, f) ==
    IF i > Len(list) THEN <<>>
    ELSE (IF ResolvesTo(list[i], flow) /\ Description(list[i], f) = d
          THEN PositionsIn(flow, EntryWords(list[i])) ELSE <<>>)
         \o ConcatIndicesFrom(list, i + 1, flow, d, f)

\* C7: in the result of get_flows_with_annotations, annotated_indices[d] of a
\* flow is the concatenation, in annotation order, of the index lists of the
\* annotations resolved to that flow whose text the caller's normalization
\* maps to d: a later annotation extends the list, repeated indices are kept,
\* and the keys are exactly the normalized descriptions.
C7_IndicesAccumulateInAnnotationOrder ==
    (FlowsReturned /\ GuardPassed) =>
        LET list == _enriched_annotations[1]
            flows == ElementsWithTag("flow")
        IN  \A k \in 1..Len(flows) :
              LET annotated_indices == DictGet(result.value, k - 1).annotated_indices
                  descriptions ==
                      {Description(list[i], transform) :
                          i \in {j \in 1..Len(list) : ResolvesTo(list[j], flows[k])}}
              IN  /\ DOMAIN annotated_indices = descriptions
                  /\ \A d \in descriptions :
                        annotated_indices[d] =
                            ConcatIndicesFrom(list, 1, flows[k], d, transform)

\* two annotations of the first flow, with the texts risk and Risk, under the
\* normalization to the first letter in lower case: the second list follows
\* the first under the one key, the index 0 twice
C7_Witness ==
    /\ FlowsReturned
    /\ GuardPassed
    /\ transform = "lower_first"
    /\ Len(_enriched_annotations[1]) = 2
    /\ _enriched_annotations[1][1].annotation.text_content
          # _enriched_annotations[1][2].annotation.text_content
    /\ DOMAIN DictGet(result.value, 0).annotated_indices = {<<"r">>}
    /\ Len(DictGet(result.value, 0).annotated_indices[<<"r">>]) = 4
    /\ DictGet(result.value, 0).annotated_indices[<<"r">>][1] = 0
    /\ DictGet(result.value, 0).annotated_indices[<<"r">>][3] = 0

\* the annotation has no matched word, or matched words in more than one
\* flow, or no text
Skipped(entry) ==
    \/ entry.words = <<>>
    \/ Cardinality(FlowsOfWords(EntryWords(entry))) > 1
    \/ ~HasText(entry)

WithoutSkipped(list) == SelectSeq(list, LAMBDA entry : ~Skipped(entry))

\* the loop of get_flows_with_annotations run over a list of entries
RECURSIVE AggregateAllFrom(_, _, _, _)
AggregateAllFrom(list, i, flows, f) ==
    IF i > Len(list) THEN flows
    ELSE AggregateAllFrom(list, i + 1, AggregateOne(list[i], flows, f).flows, f)

\* C8: an annotation without matched word, with matched words in more than
\* one flow, or with empty text adds no index and does not end the loop:
\* after any number of passes the flows are what the passes make of the
\* annotations seen so far with the skipped ones taken out, and the result
\* is the result for the annotations without the skipped ones.
C8_SkippedAnnotationsChangeNothing ==
    /\ pc = "loop" =>
          annotated_flows =
              AggregateAllFrom(
                  WithoutSkipped(SubSeq(_enriched_annotations[1], 1, annot_idx - 1)),
                  1, _initialize_flows, transform)
    /\ (FlowsReturned /\ GuardPassed) =>
          result.value =
              AggregateAllFrom(WithoutSkipped(_enriched_annotations[1]),
                               1, _initialize_flows, transform)

\* a first annotation over words of two flows, skipped, before a second one
\* whose indices are in the result
C8_Witness ==
    /\ FlowsReturned
    /\ GuardPassed
    /\ Len(_enriched_annotations[1]) = 2
    /\ Cardinality(FlowsOfWords(EntryWords(_enriched_annotations[1][1]))) = 2
    /\ ~Skipped(_enriched_annotations[1][2])
    /\ DictGet(result.value, 0).annotated_indices = (Risk :> <<0, 1>>)
    /\ log = <<"different flows", "cannot get ancestor flow">>

\* C9: get_flows_with_annotations returns an empty result whenever the
\* document has fewer than minimal_words_in_document (10) words, whatever its
\* annotations; a document of exactly 10 words passes the guard and is
\* processed: its annotations are read and its flows returned.
C9_EmptyResultBelowTenWords ==
    pc = "flows_done" =>
        /\ NumberOfWords < minimal_words_in_document =>
              /\ result = Returned(<<>>)
              /\ log = <<"no words">>
        /\ (NumberOfWords = minimal_words_in_document /\ ~result.raised) =>
              /\ result.value # <<>>
              /\ Len(result.value) = Len(ElementsWithTag("flow"))
              /\ _enriched_annotations # None

\* nine words, one of them without width, under a rectangle annotation that
\* covers it: the empty result
C9_Witness ==
    /\ pc = "flows_done"
    /\ NumberOfWords = minimal_words_in_document - 1
    /\ \E w \in WordElements : CellArea(BoxOf(w)) = 0
    /\ Len(raw_annotations) > 0
    /\ raw_annotations[1].type = "rectangle"
    /\ raw_annotations[1].box = Rectangle(0, 0, 11, 2)
    /\ result = Returned(<<>>)

\* C10: when the guard passes, the result has one record for every flow of
\* the document, keyed by the flow ids 0..n-1 in document order and listed
\* in ascending order of id; a record holds the texts of the words of the
\* flow in document order and the index of the page of the flow, and the
\* record of a flow no annotation resolved to has empty annotated_indices.
C10_OneRecordPerFlowInIdOrder ==
    (FlowsReturned /\ GuardPassed) =>
        LET flows == ElementsWithTag("flow")
        IN  /\ Len(result.value) = Len(flows)
            /\ \A k \in 1..Len(flows) :
                  /\ result.value[k].key = k - 1
                  /\ result.value[k].value.words = TextsOf(WordsBelow(flows[k]))
                  /\ result.value[k].value.page = PageIndexOf(flows[k])
                  /\ (\A i \in 1..Len(_enriched_annotations[1]) :
                          ~ResolvesTo(_enriched_annotations[1][i], flows[k]))
                        => DOMAIN result.value[k].value.annotated_indices = {}

\* a document of two pages and four flows with an annotation on its second
\* page: the last record on page 1 with the indices, the first without
C10_Witness ==
    /\ FlowsReturned
    /\ GuardPassed
    /\ Len(ElementsWithTag("page")) = 2
    /\ Len(result.value) = 4
    /\ result.value[4].value.page = 1
    /\ DOMAIN result.value[4].value.annotated_indices # {}
    /\ result.value[3].value.page = 1
    /\ result.value[2].value.page = 0
    /\ result.value[1].value.annotated_indices = EmptyDefaultDict

\* C11: in every record of the result each index stored under a description
\* is a position of the record's list of words (0 <= i < number of words of
\* the flow), and the word at that position was matched by the matcher to an
\* annotation with that description on the page of the flow.
C11_IndicesAreMatchedWordsOfTheFlow ==
    (FlowsReturned /\ GuardPassed) =>
        LET list == _enriched_annotations[1]
            flows == ElementsWithTag("flow")
        IN  \A k \in 1..Len(flows) :
              LET record == result.value[k].value
                  section == WordsBelow(flows[k])
              IN  \A d \in DOMAIN record.annotated_indices :
                    \A n \in 1..Len(record.annotated_indices[d]) :
                      LET i == record.annotated_indices[d][n]
                      IN  /\ 0 <= i
                          /\ i < Len(record.words)
                          /\ \E j \in 1..Len(list) :
                                /\ HasText(list[j])
                                /\ Description(list[j], transform) = d
                                /\ list[j].annotation.page = record.page
                                /\ list[j].annotation.page = PageIndexOf(flows[k])
                                /\ \E m \in 1..Len(list[j].words) :
                                      /\ list[j].words[m].word = section[i + 1]
                                      /\ FracGT(CoverageScore(section[i + 1],
                                                              list[j].annotation),
                                                MinimalThreshold)

\* the one word of the last flow of the second page, weakly matched to an
\* annotation with the text risk: index 0 under risk in the last record
C11_Witness ==
    /\ FlowsReturned
    /\ GuardPassed
    /\ transform = "identity"
    /\ Len(result.value) = 4
    /\ result.value[4].value.page = 1
    /\ Len(result.value[4].value.words) = 1
    /\ result.value[4].value.annotated_indices = (Risk :> <<0>>)
    /\ log = <<"weak match">>

-----------------------------------------------------------------------------
(* Specification of the rectangle operations on two rectangles: the caller
   holds rectangles[1] and rectangles[2] and calls one operation *)

\* every box of the grid, those with a lower bound above the upper included
GridRectangles ==
    { Rectangle(x1, y1, x2, y2) :
        x1 \in 0..MaxRectCoord, x2 \in 0..MaxRectCoord,
        y1 \in 0..MaxRectCoordY, y2 \in 0..MaxRectCoordY }

\* no document is part of the specification
NoDocument ==
    /\ html = <<Node("page", 0, "", NoAttrib)>>
    /\ raw_annotations = <<>>
    /\ InitFields
    /\ transform = "identity"
    /\ annotated_flows = <<>>
    /\ annot_idx = 0
    /\ words_arg = <<>>
    /\ result = Returned(<<>>)
    /\ log = <<>>

agg_vars == <<_enriched_annotations, transform, annotated_flows, annot_idx, words_arg, log>>

NoNormalization ==
    /\ call_arg = <<>>
    /\ frames = <<>>
    /\ rest_normalized = <<>>
    /\ first_output = None

InitRect ==
    /\ rectangles \in [1..2 -> GridRectangles]
    /\ NoNormalization
    /\ NoDocument
    /\ NoExtraction
    /\ NoCall
    /\ NoPdf
    /\ pc = "rectangles"

\* the caller holds two rectangles and no call is under way
TwoAtHand == pc = "rectangles" /\ Len(rectangles) >= 2

\* rectangles[0].intersection(rectangles[1])
IntersectionCall ==
    /\ TwoAtHand
    /\ result' = Returned(intersection(rectangles[1], rectangles[2]))
    /\ pc' = "intersection"
    /\ UNCHANGED <<rect_vars, ext_vars, doc_vars, call_vars, pdf_vars, agg_vars>>

\* rectangles[0].get_iou(rectangles[1])
GetIouCall ==
    /\ TwoAtHand
    /\ result' = get_iou(rectangles[1], rectangles[2])
    /\ pc' = "get_iou"
    /\ UNCHANGED <<rect_vars, ext_vars, doc_vars, call_vars, pdf_vars, agg_vars>>

\* rectangles[0].smallest_common_superrectangle(rectangles[1])
SuperrectangleCall ==
    /\ TwoAtHand
    /\ result' = Returned(smallest_common_superrectangle(rectangles[1], rectangles[2]))
    /\ pc' = "smallest_common_superrectangle"
    /\ UNCHANGED <<rect_vars, ext_vars, doc_vars, call_vars, pdf_vars, agg_vars>>

\* rectangles[1] in rectangles[0]
ContainsCall ==
    /\ TwoAtHand
    /\ result' = Returned(contains_other(rectangles[1], rectangles[2]))
    /\ pc' = "contains"
    /\ UNCHANGED <<rect_vars, ext_vars, doc_vars, call_vars, pdf_vars, agg_vars>>

NextRect ==
    \/ IntersectionCall
    \/ GetIouCall
    \/ SuperrectangleCall
    \/ ContainsCall

SpecRect == InitRect /\ [][NextRect]_vars

-----------------------------------------------------------------------------
(* Specification of normalize_list_of_rectangles: the caller holds a list of
   rectangles, calls an operation on its first two rectangles or normalizes
   the list, and normalizes what it got once more. A call of
   normalize_list_of_rectangles is one step down to its recursive call and
   one step from the return of that call to its own return. *)

\* rectangles of area 1, 2, 2 and 4 around the point (1, 1), one without
\* area and one apart from the others
NormalizeBoxes ==
    { Rectangle(1, 1, 2, 2), Rectangle(0, 0, 2, 1), Rectangle(0, 0, 1, 2),
      Rectangle(0, 0, 2, 2), Rectangle(0, 0, 0, 0), Rectangle(3, 3, 4, 5) }

\* the list of test_normalization: first, second, far_away, in_between
ListOfTestNormalization ==
    <<Rectangle(0, 0, 2, 2), Rectangle(3, 3, 5, 5), Rectangle(100, 1, 120, 4),
      Rectangle(1, 1, 4, 4)>>

InitNormalize ==
    /\ rectangles \in SeqsUpTo(NormalizeBoxes, MaxRectangles) \cup {ListOfTestNormalization}
    /\ args = rectangles
    /\ kept = None
    /\ NoNormalization
    /\ NoDocument
    /\ NoExtraction
    /\ NoPdf
    /\ pc = "rectangles"

\* rectangles[0].rescale(multiply_width_by, multiply_height_by)
RescaleCall ==
    /\ TwoAtHand
    /\ \E multiply_width_by \in {1, CoordsPerUnit}, multiply_height_by \in {1, CoordsPerUnit} :
          result' = Returned(rescale(rectangles[1], multiply_width_by, multiply_height_by))
    /\ pc' = "rescale"
    /\ UNCHANGED <<rect_vars, ext_vars, doc_vars, call_vars, pdf_vars, agg_vars>>

\* rectangles[0].to_int()
ToIntCall ==
    /\ TwoAtHand
    /\ result' = Returned(to_int(rectangles[1]))
    /\ pc' = "to_int"
    /\ UNCHANGED <<rect_vars, ext_vars, doc_vars, call_vars, pdf_vars, agg_vars>>

\* the caller's call is about to be entered: the list is the caller's own
AtTopLevel == pc \in {"rectangles", "again"}

\* the list the call being entered works on
ListOfCall == IF AtTopLevel THEN rectangles ELSE call_arg

\* One call of normalize_list_of_rectangles from its entry to its recursive
\* call, or to its return for a list of fewer than 2 rectangles. The loop
\* assigns into the list of the call, which at top level is the caller's
\* list; a ZeroDivisionError of get_iou ends all calls under way.
NormalizeEnter ==
    /\ pc \in {"rectangles", "again", "normalize"}
    /\ IF Len(ListOfCall) < 2
       THEN /\ rest_normalized' = ListOfCall
            /\ pc' = "unwind"
            /\ UNCHANGED <<rectangles, call_arg, frames, result>>
       ELSE \E loop \in {NormalizeLoopFrom(ListOfCall, ListOfCall[1], 2, FALSE)} :
              /\ rectangles' = IF AtTopLevel THEN loop.list ELSE rectangles
              /\ IF loop.raised
                 THEN /\ pc' = "raised"
                      /\ result' = Raised("ZeroDivisionError")
                      /\ frames' = <<>>
                      /\ call_arg' = <<>>
                      /\ rest_normalized' = <<>>
                 ELSE /\ pc' = "normalize"
                      /\ frames' = Append(frames,
                             [first |-> ListOfCall[1],
                              first_intersects_some |-> loop.first_intersects_some])
                      /\ call_arg' = RestOf(loop.list)
                      /\ UNCHANGED <<rest_normalized, result>>
    /\ UNCHANGED <<first_output, ext_vars, doc_vars, call_vars, pdf_vars, agg_vars>>

\* The return of the innermost call under way, from the return of its
\* recursive call; the return of the caller's call ends the normalization.
NormalizeReturn ==
    /\ pc = "unwind"
    /\ IF frames = <<>>
       THEN /\ pc' = "normalized"
            /\ result' = Returned(rest_normalized)
            /\ UNCHANGED <<frames, rest_normalized>>
       ELSE /\ rest_normalized' =
                  ReturnOfCall(frames[Len(frames)].first_intersects_some,
                               frames[Len(frames)].first, rest_normalized)
            /\ frames' = SubSeq(frames, 1, Len(frames) - 1)
            /\ UNCHANGED <<pc, result>>
    /\ UNCHANGED <<rectangles, call_arg, first_output, ext_vars, doc_vars, call_vars, pdf_vars, agg_vars>>

\* The caller passes what the first normalization returned to a second one.
NormalizeAgain ==
    /\ pc = "normalized"
    /\ first_output = None
    /\ first_output' = Some(result.value)
    /\ rectangles' = result.value
    /\ pc' = "again"
    /\ call_arg' = <<>>
    /\ rest_normalized' = <<>>
    /\ args' = result.value
    /\ UNCHANGED <<frames, result, ext_vars, doc_vars, kept, pdf_vars, agg_vars>>

NextNormalize ==
    \/ IntersectionCall
    \/ GetIouCall
    \/ SuperrectangleCall
    \/ ContainsCall
    \/ RescaleCall
    \/ ToIntCall
    \/ NormalizeEnter
    \/ NormalizeReturn
    \/ NormalizeAgain

SpecNormalize == InitNormalize /\ [][NextNormalize]_vars

\* a call that is under way goes on: the code runs in one thread to its end
SpecNormalizeFair ==
    SpecNormalize /\ WF_vars(NormalizeEnter) /\ WF_vars(NormalizeReturn)

-----------------------------------------------------------------------------
(* Claims on the operations on two rectangles, checked under SpecRect *)

\* the range of inner lies within the range of outer on both axes
InRange(inner, outer) ==
    /\ outer.x_min <= inner.x_min
    /\ inner.x_max <= outer.x_max
    /\ outer.y_min <= inner.y_min
    /\ inner.y_max <= outer.y_max

\* area(a /\ b) / (area(a) + area(b) - area(a /\ b)), counted in cells
CellIoU(a, b) ==
    Frac(CoveredArea(a, b), CellArea(a) + CellArea(b) - CoveredArea(a, b))

\* C13: get_iou never divides by zero: it returns a value for every pair of
\* rectangles, those without area included, and the IoU of Rectangle(0,0,0,0)
\* with any rectangle, itself included, is 0.
C13_GetIouReturnsForEveryPair ==
    pc = "get_iou" =>
        /\ ~result.raised
        /\ (rectangles[1] = Rectangle(0, 0, 0, 0) \/ rectangles[2] = Rectangle(0, 0, 0, 0))
              => result.value.num = 0

\* C14: a get_iou that returns gives area(intersection) over area(a) +
\* area(b) - area(intersection), a number from 0 to 1, the same for (b, a),
\* and 0 whenever a and b have no intersection.
C14_IouIsIntersectionOverUnion ==
    (pc = "get_iou" /\ ~result.raised) =>
        LET a == rectangles[1]
            b == rectangles[2]
            iou == result.value
            swapped == get_iou(b, a)
        IN  /\ iou.den > 0
            /\ 0 <= iou.num
            /\ iou.num <= iou.den
            /\ intersection(a, b) = None => iou.num = 0
            /\ Disjoint(a, b) => iou.num = 0
            /\ ~Disjoint(a, b) => FracEq(iou, CellIoU(a, b))
            /\ ~swapped.raised
            /\ FracEq(swapped.value, iou)

\* two rectangles of area 2 and 1, the second inside the first: 1/2
C14_Witness ==
    /\ pc = "get_iou"
    /\ ~result.raised
    /\ rectangles[1] = Rectangle(0, 0, 2, 1)
    /\ rectangles[2] = Rectangle(1, 0, 2, 1)
    /\ result.value.num * 2 = result.value.den

\* C15: intersection(a, b) is none exactly when on some axis the larger of
\* the two lower bounds exceeds the smaller of the two upper bounds, that is
\* when a and b have no point in common; otherwise it is the rectangle of the
\* common points, without area when a and b only touch, contained in a and
\* in b; intersection(b, a) is the same.
C15_IntersectionIsTheOverlapOrNone ==
    pc = "intersection" =>
        LET a == rectangles[1]
            b == rectangles[2]
            inter == result.value
        IN  /\ inter = None <=>
                  \/ a.x_min > a.x_max \/ a.x_min > b.x_max
                  \/ b.x_min > a.x_max \/ b.x_min > b.x_max
                  \/ a.y_min > a.y_max \/ a.y_min > b.y_max
                  \/ b.y_min > a.y_max \/ b.y_min > b.y_max
            /\ inter = None <=> Disjoint(a, b)
            /\ inter # None =>
                  /\ Points(inter[1]) = Points(a) \cap Points(b)
                  /\ InRange(inter[1], a)
                  /\ InRange(inter[1], b)
                  /\ contains_other(a, inter[1])
                  /\ contains_other(b, inter[1])
            /\ inter = intersection(b, a)

\* two rectangles with area that share an edge: the edge, not none
C15_Witness ==
    /\ pc = "intersection"
    /\ CellArea(rectangles[1]) > 0
    /\ CellArea(rectangles[2]) > 0
    /\ rectangles[1].x_max = rectangles[2].x_min
    /\ result.value # None
    /\ width(result.value[1]) = 0
    /\ height(result.value[1]) > 0

\* C16: smallest_common_superrectangle(a, b) contains a and contains b under
\* the non-strict containment, by which every rectangle contains itself; it
\* is the same for (b, a); every rectangle that contains a and b contains it.
C16_SuperrectangleIsTheLeastContainer ==
    pc = "smallest_common_superrectangle" =>
        LET a == rectangles[1]
            b == rectangles[2]
            super == result.value
        IN  /\ InRange(a, super)
            /\ InRange(b, super)
            /\ contains_other(super, a)
            /\ contains_other(super, b)
            /\ contains_other(a, a)
            /\ contains_other(super, super)
            /\ super = smallest_common_superrectangle(b, a)
            /\ \A c \in GridRectangles :
                  (InRange(a, c) /\ InRange(b, c)) => InRange(super, c)

\* two rectangles neither of which contains the other: a third rectangle
C16_Witness ==
    /\ pc = "smallest_common_superrectangle"
    /\ rectangles[1] = Rectangle(0, 0, 1, 1)
    /\ rectangles[2] = Rectangle(1, 0, 2, 1)
    /\ result.value = Rectangle(0, 0, 2, 1)

-----------------------------------------------------------------------------
(* Claims on normalize_list_of_rectangles, checked under SpecNormalize *)

\* two rectangles of the list have cells in common, which is a nonzero IoU
SomeTwoOverlap(list) ==
    \E i, j \in 1..Len(list) : i < j /\ CoveredArea(list[i], list[j]) > 0

\* C12: normalize_list_of_rectangles is idempotent: no two rectangles of the
\* list it returns have a nonzero IoU, and normalizing the returned list
\* returns the same list.
C12_NormalizedListIsStable ==
    pc = "normalized" =>
        /\ ~SomeTwoOverlap(result.value)
        /\ first_output # None => result.value = first_output[1]

\* C17: the operations on rectangles are pure: no call of intersection,
\* get_iou, smallest_common_superrectangle, rescale, to_int or
\* normalize_list_of_rectangles changes the caller's list, which keeps its
\* length and the same rectangle at every position; only the caller itself
\* puts another list in its place.
C17_CallsLeaveTheCallersListAlone ==
    [][pc' # "again" => rectangles' = rectangles]_vars

\* the list of the innermost call under way is as long as the caller's list
\* less the calls above it
LenOfReturningCall == Len(rectangles) - Len(frames) + 1

\* C18: normalize_list_of_rectangles terminates on every finite list: every
\* recursive call works on a list shorter than the list of its caller, a call
\* that merged returns at least one rectangle less than it was given, what is
\* returned is never longer than the list given, and a normalization under
\* way comes to its end.
C18_NormalizationTerminates ==
    /\ [][/\ pc' = "normalize" => Len(call_arg') < Len(ListOfCall)
          /\ pc = "unwind" /\ frames # <<>> =>
                Len(rest_normalized') <=
                    IF frames[Len(frames)].first_intersects_some
                    THEN LenOfReturningCall - 1
                    ELSE LenOfReturningCall]_vars
    /\ [](pc = "normalized" => Len(result.value) <= Len(rectangles))
    /\ (pc \in {"again", "normalize", "unwind"}) ~> (pc \in {"normalized", "raised"})

\* three rectangles merged into one by two merging calls
C18_Witness ==
    /\ pc = "normalized"
    /\ first_output = None
    /\ Len(rectangles) = 3
    /\ result.value = <<Rectangle(0, 0, 2, 2)>>

-----------------------------------------------------------------------------
(* annotation.py: the bounding box of an annotation. The coordinates are
   floats; a float of the model is an integer of FloatBits significant bits,
   and a difference is rounded to the nearest float, a tie to the one with
   the even last bit, as float.__sub__ does. *)

Abs(v) == IF v < 0 THEN -v ELSE v

\* the distance between the floats next to a >= 0
RECURSIVE SpacingFrom(_, _)
SpacingFrom(a, spacing) ==
    IF a < (2 ^ FloatBits) * spacing THEN spacing ELSE SpacingFrom(a, 2 * spacing)

\* the float nearest to the number v
RoundToFloat(v) ==
    LET a == Abs(v)
        spacing == SpacingFrom(a, 1)
        below == a \div spacing
        rest == a % spacing
        nearest == IF 2 * rest > spacing \/ (2 * rest = spacing /\ below % 2 = 1)
                   THEN (below + 1) * spacing
                   ELSE below * spacing
    IN  IF v < 0 THEN -nearest ELSE nearest

IsFloat(v) == RoundToFloat(v) = v

\* float.__sub__
FloatSub(a, b) == RoundToFloat(a - b)

\* (mutant) the vertical bounds flipped but not swapped
CreateBoxNotSwapped(box, height_of_page, from_above) ==
    Rectangle(box[1],
              IF from_above THEN FloatSub(height_of_page, box[2]) ELSE box[2],
              box[3],
              IF from_above THEN FloatSub(height_of_page, box[4]) ELSE box[4])

\* AnnotationExtractor._create_annotations_bounding_box (and _create_rectangle
\* of pdf_tools, the same code); box is box_as_list, 1-based
_create_annotations_bounding_box(box, height_of_page, from_above) ==
    Rectangle(box[1],
              IF from_above THEN FloatSub(height_of_page, box[4]) ELSE box[2],
              box[3],
              IF from_above THEN FloatSub(height_of_page, box[2]) ELSE box[4])

\* the floats from 0 to MaxBoxCoord
BoxCoords == {v \in 0..MaxBoxCoord : IsFloat(v)}

\* [x_min, y_min, x_max, y_max] as an annotation tool writes it, and as a
\* reader hands it on: the bounds in either order
InitBox ==
    /\ box_as_list \in {<<x_min, y_min, x_max, y_max>> :
                           x_min \in 0..MaxBoxCoordX, x_max \in 0..MaxBoxCoordX,
                           y_min \in BoxCoords, y_max \in BoxCoords}
    /\ page_height \in BoxCoords
    /\ pdf_pages = <<>>
    /\ outputs = <<>>
    /\ idx = 0
    /\ NoCall
    /\ NoPdf
    /\ NoRectangles
    /\ NoDocument
    /\ pc = "box"

\* _create_annotations_bounding_box(box_as_list, page_height, from_above)
CreateBoxCall ==
    /\ pc = "box"
    /\ \E from_above \in BOOLEAN :
          /\ result' = Returned(_create_annotations_bounding_box(
                                    box_as_list, page_height, from_above))
          /\ pc' = IF from_above THEN "flipped" ELSE "kept"
    /\ UNCHANGED <<rect_vars, ext_vars, doc_vars, call_vars, pdf_vars, agg_vars>>

\* the box returned, as a list
AsList(rect) == <<rect.x_min, rect.y_min, rect.x_max, rect.y_max>>

\* _create_annotations_bounding_box on the box it returned, same page height
CreateBoxOfFlipped ==
    /\ pc = "flipped"
    /\ result' = Returned(_create_annotations_bounding_box(
                              AsList(result.value), page_height, TRUE))
    /\ pc' = "flipped twice"
    /\ UNCHANGED <<rect_vars, ext_vars, doc_vars, call_vars, pdf_vars, agg_vars>>

NextBox ==
    \/ CreateBoxCall
    \/ CreateBoxOfFlipped

SpecBox == InitBox /\ [][NextBox]_vars

-----------------------------------------------------------------------------
(* Claims on the bounding box of an annotation, checked under SpecBox *)

\* the native box [x_min, y_min, x_max, y_max] as a rectangle
NativeBox == Rectangle(box_as_list[1], box_as_list[2], box_as_list[3], box_as_list[4])

\* (x_min, H - y_max, x_max, H - y_min), in numbers
FlippedBox ==
    Rectangle(box_as_list[1], page_height - box_as_list[4],
              box_as_list[3], page_height - box_as_list[2])

\* C19 as stated: the box extracted for [x_min, y_min, x_max, y_max] on a
\* page of height H is (x_min, H - y_max, x_max, H - y_min), with x, width
\* and height as they were and y_min <= y_max as it was, and flipping it once
\* more with the same H gives the native box.
C19_FlipIsExact ==
    /\ pc = "flipped" =>
          /\ result.value = FlippedBox
          /\ width(result.value) = width(NativeBox)
          /\ height(result.value) = height(NativeBox)
          /\ NativeBox.y_min <= NativeBox.y_max => result.value.y_min <= result.value.y_max
    /\ pc = "flipped twice" => result.value = NativeBox

\* no float is nearer to the number v than f
NearestFloat(f, v) ==
    /\ IsFloat(f)
    /\ \A g \in (v - MaxBoxCoord)..(v + MaxBoxCoord) : IsFloat(g) => Abs(f - v) <= Abs(g - v)

\* both differences are floats
DifferencesAreFloats ==
    /\ IsFloat(page_height - box_as_list[2])
    /\ IsFloat(page_height - box_as_list[4])

\* C19 (amended): the extracted box has x_min and x_max, and so the width, of
\* the native box, for its vertical bounds the floats nearest to H - y_max
\* and H - y_min, and y_min <= y_max if the native box has. Where H - y_max
\* and H - y_min are floats themselves, it is (x_min, H - y_max, x_max,
\* H - y_min), the height is that of the native box and flipping once more
\* with the same H gives the native box.
C19_FlipIsExactWhereDifferencesAreFloats ==
    /\ pc = "flipped" =>
          /\ result.value.x_min = NativeBox.x_min
          /\ result.value.x_max = NativeBox.x_max
          /\ width(result.value) = width(NativeBox)
          /\ NearestFloat(result.value.y_min, page_height - NativeBox.y_max)
          /\ NearestFloat(result.value.y_max, page_height - NativeBox.y_min)
          /\ NativeBox.y_min <= NativeBox.y_max => result.value.y_min <= result.value.y_max
          /\ DifferencesAreFloats =>
                /\ result.value = FlippedBox
                /\ height(result.value) = height(NativeBox)
    /\ pc = "flipped twice" /\ DifferencesAreFloats => result.value = NativeBox

\* a box of height 2 below the top of a page of height 8, flipped twice
C19_Witness ==
    /\ pc = "flipped twice"
    /\ box_as_list = <<0, 4, 1, 6>>
    /\ page_height = 8
    /\ result.value = Rectangle(0, 4, 1, 6)

-----------------------------------------------------------------------------
(* annotation.py: the extraction of the annotations of a pdf. A page is its
   cropBox and what page.get('/Annots') finds; a record is what getObject()
   gives for one entry of the list: /Subj or none, /Rect, /Contents or none,
   the latter a string or a ByteStringObject. *)

ADMISSIBLE_ANNOTATION_TYPES == {"rectangle", "oval", "ovál", "note"}

\* str.lower on the subjects of the records
lower(subject) ==
    CASE subject = "Rectangle" -> "rectangle"
      [] subject = "OVÁL" -> "ovál"
      [] subject = "Highlight" -> "highlight"
      [] OTHER -> subject

\* (mutant) the type stored as it is given
TypeAsGiven(type) == type

\* Annotation.__init__: self.type = type if type != "ovál" else "oval"
TypeOfAnnotation(type) == IF type = "ovál" THEN "oval" ELSE type

\* text_content = current.get("/Contents"), decoded if a ByteStringObject
TextContentOf(current) ==
    IF current.Contents = None THEN None ELSE Some(current.Contents[1].text)

\* The loop of _parse_annot_pdf_page over annots from position i on: the
\* outputs and the warnings logged.
RECURSIVE ParseRecordsFrom(_, _, _, _, _, _)
ParseRecordsFrom(annots, i, height_of_page, page_idx, page_outputs, warnings) ==
    IF i > Len(annots) THEN [raised |-> FALSE, value |-> page_outputs, log |-> warnings]
    ELSE
      LET current == annots[i]
      IN  IF current.Subj = None
          THEN ParseRecordsFrom(annots, i + 1, height_of_page, page_idx,
                                page_outputs, warnings)
          ELSE
            LET annot_type == lower(current.Subj[1])
                current_rec == _create_annotations_bounding_box(
                                   current.Rect, height_of_page, TRUE)
            IN  IF annot_type \in ADMISSIBLE_ANNOTATION_TYPES
                THEN ParseRecordsFrom(annots, i + 1, height_of_page, page_idx,
                         Append(page_outputs,
                                Annotation(page_idx, TypeOfAnnotation(annot_type),
                                           current_rec, TextContentOf(current))),
                         warnings)
                ELSE ParseRecordsFrom(annots, i + 1, height_of_page, page_idx,
                         page_outputs, Append(warnings, "foreign annotation found"))

\* (mutant) a page without a list of annotations ends the extraction
ParsePageOrRaise(page, page_idx) ==
    IF ~(page.cropBox[1] = 0 /\ page.cropBox[2] = 0)
       \/ page.Annots.kind \in {"other", "IndirectObject of other"}
    THEN [raised |-> TRUE, value |-> "CannotReadPdf", log |-> <<>>]
    ELSE ParseRecordsFrom(page.Annots.items, 1, page.cropBox[4], page_idx, <<>>, <<>>)

\* (mutant) a page whose cropBox does not start with zeros gives no annotation
ParsePageOrSkip(page, page_idx) ==
    IF ~(page.cropBox[1] = 0 /\ page.cropBox[2] = 0)
       \/ page.Annots.kind \in {"other", "IndirectObject of other"}
    THEN [raised |-> FALSE, value |-> <<>>, log |-> <<"cannot read annotations">>]
    ELSE ParseRecordsFrom(page.Annots.items, 1, page.cropBox[4], page_idx, <<>>, <<>>)

\* AnnotationExtractor._parse_annot_pdf_page
_parse_annot_pdf_page(page, page_idx) ==
    IF ~(page.cropBox[1] = 0 /\ page.cropBox[2] = 0)
    THEN [raised |-> TRUE, value |-> "CannotReadPdf", log |-> <<>>]
    ELSE IF page.Annots.kind \in {"other", "IndirectObject of other"}
    THEN [raised |-> FALSE, value |-> <<>>, log |-> <<"cannot read annotations">>]
    ELSE ParseRecordsFrom(page.Annots.items, 1, page.cropBox[4], page_idx, <<>>, <<>>)

-----------------------------------------------------------------------------
(* Specification of get_annot_from_pdf: the pages of a pdf are parsed one
   after the other. *)

\* the records of the pages, told apart by the x_min of their /Rect
RectangleRecord ==
    [Subj |-> Some("Rectangle"), Rect |-> <<1, 2, 3, 4>>,
     Contents |-> Some([bytes |-> FALSE, text |-> Risk])]

OvalRecord ==
    [Subj |-> Some("OVÁL"), Rect |-> <<2, 1, 4, 6>>,
     Contents |-> Some([bytes |-> TRUE, text |-> Risk])]

NoteRecord ==
    [Subj |-> Some("note"), Rect |-> <<3, 0, 4, 1>>, Contents |-> None]

HighlightRecord ==
    [Subj |-> Some("Highlight"), Rect |-> <<4, 2, 6, 3>>, Contents |-> None]

LinkRecord ==
    [Subj |-> None, Rect |-> <<6, 0, 8, 1>>, Contents |-> None]

ListsOfRecords ==
    { <<>>,
      <<RectangleRecord>>,
      <<HighlightRecord>>,
      <<HighlightRecord, RectangleRecord>>,
      <<RectangleRecord, HighlightRecord, OvalRecord>>,
      <<LinkRecord, NoteRecord>>,
      <<OvalRecord, RectangleRecord>> }

\* what page.get('/Annots', []) finds
AnnotsOfPages ==
    {[kind |-> "list", items |-> items] : items \in ListsOfRecords}
    \cup {[kind |-> "IndirectObject of list", items |-> items] :
             items \in {<<RectangleRecord>>, <<HighlightRecord, RectangleRecord>>}}
    \cup {[kind |-> "absent", items |-> <<>>],
          [kind |-> "other", items |-> <<>>],
          [kind |-> "IndirectObject of other", items |-> <<>>]}

PdfPages ==
    {[cropBox |-> <<0, 0, 6, 8>>, Annots |-> annots] : annots \in AnnotsOfPages}
    \cup {[cropBox |-> <<1, 0, 6, 8>>, Annots |-> [kind |-> "list", items |-> <<RectangleRecord>>]],
          [cropBox |-> <<0, 1, 6, 8>>, Annots |-> [kind |-> "list", items |-> <<>>]]}

InitExtract ==
    /\ pdf_pages \in SeqsUpTo(PdfPages, MaxPdfPages)
    /\ outputs = <<>>
    /\ idx = 0
    /\ box_as_list = <<>>
    /\ page_height = 0
    /\ NoCall
    /\ NoPdf
    /\ NoRectangles
    /\ NoDocument
    /\ pc = "extract"

\* one round of the loop of get_annot_from_pdf:
\* outputs += _parse_annot_pdf_page(pdf.pdf_reader.getPage(idx), idx)
ExtractPage ==
    /\ pc = "extract"
    /\ idx < Len(pdf_pages)
    /\ \E parsed \in {_parse_annot_pdf_page(pdf_pages[idx + 1], idx)} :
          IF parsed.raised
          THEN /\ pc' = "raised"
               /\ result' = Raised(parsed.value)
               /\ UNCHANGED <<outputs, idx, log>>
          ELSE /\ outputs' = outputs \o parsed.value
               /\ idx' = idx + 1
               /\ log' = log \o parsed.log
               /\ UNCHANGED <<pc, result>>
    /\ UNCHANGED <<pdf_pages, box_as_list, page_height, rect_vars, doc_vars, call_vars, pdf_vars,
                   _enriched_annotations, transform, annotated_flows, annot_idx, words_arg>>

\* return outputs
ExtractReturn ==
    /\ pc = "extract"
    /\ idx = Len(pdf_pages)
    /\ result' = Returned(outputs)
    /\ pc' = "extracted"
    /\ UNCHANGED <<rect_vars, ext_vars, doc_vars, call_vars, pdf_vars, agg_vars>>

NextExtract ==
    \/ ExtractPage
    \/ ExtractReturn

SpecExtract == InitExtract /\ [][NextExtract]_vars

-----------------------------------------------------------------------------
(* Claims on the extraction, checked under SpecExtract *)

\* the container of the page is a list or an indirect reference to one
ContainerIsList(page) == page.Annots.kind \in {"absent", "list", "IndirectObject of list"}

\* the lower-cased subject of the record is one of the admissible types
AdmissibleSubject(record) ==
    /\ record.Subj # None
    /\ \/ record.Subj[1] \in {"rectangle", "oval", "ovál", "note"}
       \/ record.Subj[1] \in {"Rectangle", "OVÁL"}

\* the records expected from the pages from position i on, each as the
\* number of its page and the x_min of its /Rect
RECURSIVE ExpectedFrom(_, _)
ExpectedFrom(pages_of_pdf, i) ==
    IF i > Len(pages_of_pdf) THEN <<>>
    ELSE
      LET records == IF ContainerIsList(pages_of_pdf[i])
                     THEN SelectSeq(pages_of_pdf[i].Annots.items, AdmissibleSubject)
                     ELSE <<>>
      IN  [k \in 1..Len(records) |-> <<i - 1, records[k].Rect[1]>>]
          \o ExpectedFrom(pages_of_pdf, i + 1)

\* the annotations extracted, each as the number of its page and the x_min
\* of its box
PageAndXMin(annotations) ==
    [k \in 1..Len(annotations) |-> <<annotations[k].page, annotations[k].box.x_min>>]

\* the cropBox of the page starts with zeros
CropOriginIsZero(page) == page.cropBox[1] = 0 /\ page.cropBox[2] = 0

\* C20: the extraction absorbs the recoverable problems: it is ended by an
\* error only at a page whose cropBox does not start with zeros, and it
\* returns, page after page and in the order of the page, one annotation for
\* every record whose lower-cased subject is admissible ('Rectangle'
\* included), of the type of that subject; a record with another subject is
\* left out and a page whose container is neither a list nor an indirect
\* reference to a list gives no annotation, without a loss for the other
\* records and pages.
C20_RecoverableProblemsAreAbsorbed ==
    /\ pc = "raised" => ~CropOriginIsZero(pdf_pages[idx + 1])
    /\ pc = "extracted" =>
          /\ PageAndXMin(result.value) = ExpectedFrom(pdf_pages, 1)
          /\ \A k \in 1..Len(result.value) :
                result.value[k].type \in {"rectangle", "oval", "note"}
          /\ \A i \in 1..Len(pdf_pages) :
                ~ContainerIsList(pdf_pages[i]) =>
                    \A k \in 1..Len(result.value) : result.value[k].page # i - 1

\* a dropped record before an admitted 'Rectangle' on page 0, no list on
\* page 1, two annotations on page 2
C20_Witness ==
    /\ pc = "extracted"
    /\ Len(pdf_pages) = 3
    /\ pdf_pages[1].Annots.items = <<HighlightRecord, RectangleRecord>>
    /\ pdf_pages[2].Annots.kind = "IndirectObject of other"
    /\ pdf_pages[3].Annots.items = <<OvalRecord, RectangleRecord>>
    /\ PageAndXMin(result.value) = <<<<0, 1>>, <<2, 2>>, <<2, 1>>>>
    /\ result.value[2].type = "oval"
    /\ log = <<"foreign annotation found", "cannot read annotations">>

\* the number of records of the pages from position i on whose container
\* is a list or an indirect reference to one
RECURSIVE RecordsOnReadablePagesFrom(_, _)
RecordsOnReadablePagesFrom(pages_of_pdf, i) ==
    IF i > Len(pages_of_pdf) THEN 0
    ELSE (IF ContainerIsList(pages_of_pdf[i]) THEN Len(pages_of_pdf[i].Annots.items) ELSE 0)
         + RecordsOnReadablePagesFrom(pages_of_pdf, i + 1)

\* the warnings of the log about a record
WarningsAboutRecords == SelectSeq(log, LAMBDA warning : warning = "foreign annotation found")

\* C21: every record of a readable page becomes an annotation of the output
\* or causes a warning, so that an extraction that returns has as many
\* annotations and warnings about records as the readable pages have
\* records; and no recoverable case is raised: an error ends the extraction
\* only at a page whose cropBox does not start with zeros.
C21_EveryRecordLeavesATrace ==
    /\ pc = "raised" => ~CropOriginIsZero(pdf_pages[idx + 1])
    /\ pc = "extracted" =>
          Len(result.value) + Len(WarningsAboutRecords)
              = RecordsOnReadablePagesFrom(pdf_pages, 1)

\* some page of the pdf has a cropBox that does not start with zeros
SomeCropOriginNotZero == \E i \in 1..Len(pdf_pages) : ~CropOriginIsZero(pdf_pages[i])

\* C22: when the cropBox of some page does not start at (0, 0) the
\* extraction returns no list: the round of the loop that comes to the first
\* such page raises CannotReadPdf to the caller, and the annotations of the
\* pages before it are not returned.
C22_NonzeroCropOriginIsFatal ==
    /\ [](SomeCropOriginNotZero => pc # "extracted")
    /\ [](pc = "raised" => result = Raised("CannotReadPdf"))
    /\ [][pc = "extract" /\ idx < Len(pdf_pages) /\ ~CropOriginIsZero(pdf_pages[idx + 1])
             => pc' = "raised" /\ result' = Raised("CannotReadPdf")]_vars

\* CannotReadPdf at the second page, one annotation of the first page lost
C22_Witness ==
    /\ pc = "raised"
    /\ idx = 1
    /\ Len(outputs) = 1
    /\ pdf_pages[2].cropBox = <<0, 1, 6, 8>>
    /\ result = Raised("CannotReadPdf")

-----------------------------------------------------------------------------
(* annotation.py: the constructor of Annotation with all its fields, and
   as_dict. The operator Annotation above gives the fields that the document
   pipeline reads. *)

\* Annotation.__init__: the assert, then the fields
NewAnnotation(page, type, box, text_content, who_annotated, label) ==
    IF type \notin ADMISSIBLE_ANNOTATION_TYPES
    THEN Raised("AssertionError")
    ELSE Returned([page |-> page, type |-> TypeOfAnnotation(type), box |-> box,
                   text_content |-> text_content, who_annotated |-> who_annotated,
                   label |-> label])

\* Rectangle.as_dict
RectangleAsDict(self) ==
    [x_min |-> self.x_min, y_min |-> self.y_min, x_max |-> self.x_max, y_max |-> self.y_max]

\* Annotation.as_dict
as_dict(self) ==
    [page |-> self.page, type |-> self.type, box |-> RectangleAsDict(self.box),
     label |-> self.label, who_annotated |-> self.who_annotated,
     text_content |-> self.text_content]

\* the types a caller may give: the admissible ones, and others
TypesGiven == ADMISSIBLE_ANNOTATION_TYPES \cup {"Rectangle", "highlight", ""}

InitAnnotation ==
    /\ args \in [page : 0..1,
                 type : TypesGiven,
                 box : {Rectangle(10, 10, 13, 13), Rectangle(0, 0, 0, 0)},
                 text_content : {None, Some(Risk)},
                 who_annotated : {None, Some("peter")},
                 label : {None, Some(3)}]
    /\ kept = None
    /\ NoPdf
    /\ NoExtraction
    /\ NoRectangles
    /\ NoDocument
    /\ pc = "args"

\* Annotation(page=..., type=..., box=..., text_content=..., who_annotated=..., label=...)
ConstructAnnotation ==
    /\ pc = "args"
    /\ \E made \in {NewAnnotation(args.page, args.type, args.box, args.text_content,
                                  args.who_annotated, args.label)} :
          /\ result' = made
          /\ pc' = IF made.raised THEN "raised" ELSE "constructed"
    /\ UNCHANGED <<rect_vars, ext_vars, doc_vars, call_vars, pdf_vars, agg_vars>>

\* annotation.as_dict, of the annotation constructed
AsDictCall ==
    /\ pc = "constructed"
    /\ result' = Returned(as_dict(result.value))
    /\ pc' = "as_dict"
    /\ UNCHANGED <<rect_vars, ext_vars, doc_vars, call_vars, pdf_vars, agg_vars>>

NextAnnotation ==
    \/ ConstructAnnotation
    \/ AsDictCall

SpecAnnotation == InitAnnotation /\ [][NextAnnotation]_vars

-----------------------------------------------------------------------------
(* Claims on the constructor of Annotation, checked under SpecAnnotation *)

\* the type given is rectangle, oval or note, or the locale spelling of oval
TypeGivenIsAdmissible == args.type \in {"rectangle", "oval", "note", "ovál"}

\* the canonical spelling of the type given
CanonicalTypeGiven == IF args.type = "ovál" THEN "oval" ELSE args.type

\* C23: the construction of an Annotation fails exactly when the type given
\* is outside the admissible set; a constructed Annotation has a type in
\* {rectangle, oval, note}, 'ovál' being stored as 'oval', and as_dict gives
\* that type with page, box, text_content, author and label as given.
C23_ConstructedTypeIsCanonical ==
    /\ pc = "raised" => ~TypeGivenIsAdmissible /\ result = Raised("AssertionError")
    /\ pc \in {"constructed", "as_dict"} =>
          /\ TypeGivenIsAdmissible
          /\ result.value.type \in {"rectangle", "oval", "note"}
          /\ result.value.type = CanonicalTypeGiven
    /\ pc = "as_dict" =>
          /\ result.value.page = args.page
          /\ result.value.box.x_min = args.box.x_min
          /\ result.value.box.y_min = args.box.y_min
          /\ result.value.box.x_max = args.box.x_max
          /\ result.value.box.y_max = args.box.y_max
          /\ result.value.text_content = args.text_content
          /\ result.value.who_annotated = args.who_annotated
          /\ result.value.label = args.label
          /\ DOMAIN result.value =
                {"page", "type", "box", "label", "who_annotated", "text_content"}

\* the annotation of the test, with the locale spelling of oval
C23_Witness ==
    /\ pc = "as_dict"
    /\ args.type = "ovál"
    /\ args.label = Some(3)
    /\ result.value.type = "oval"
    /\ result.value.box = [x_min |-> 10, y_min |-> 10, x_max |-> 13, y_max |-> 13]

-----------------------------------------------------------------------------
(* Claims on repeated calls of AnnotatedPdf, checked under SpecRepeated *)

\* C24: memoization is transparent: what a read of enriched_annotations
\* returns, the first and any later one, is what is kept in
\* _enriched_annotations and what _match_annotations_with_words computes; a
\* read returns what an earlier
\* read returned, and get_flows_with_annotations returns what an earlier
\* call with the same normalizer returned, no index of the earlier call
\* added.
C24_RepeatedCallsReturnTheSame ==
    /\ pc = "enriched_done" /\ ~result.raised =>
          /\ ~_match_annotations_with_words.raised
          /\ result.value = _match_annotations_with_words.value.list
          /\ _enriched_annotations = Some(result.value)
          /\ kept # None /\ kept[1].pc = "enriched_done" => result.value = kept[1].value
    /\ (/\ pc = "flows_done"
        /\ ~result.raised
        /\ kept # None
        /\ kept[1].pc = "flows_done"
        /\ kept[1].transform = transform) => result.value = kept[1].value

\* a second call, after other calls, returns the indices of a first call
\* that was kept
C24_Witness ==
    /\ pc = "flows_done"
    /\ ~result.raised
    /\ kept # None
    /\ kept[1].pc = "flows_done"
    /\ kept[1].transform = transform
    /\ log # <<>>
    /\ \E id \in 1..Len(result.value) :
          /\ result.value[id].value.annotated_indices = (Risk :> <<0>>)
          /\ kept[1].value = result.value

-----------------------------------------------------------------------------
(* Claims on what normalize_list_of_rectangles returns for the list given,
   checked under SpecNormalize; args is the list as the caller gave it *)

\* the two rectangles have cells in common: their IoU is not zero
Overlap(a, b) == CoveredArea(a, b) > 0

\* the positions of the list linked to a position of the set by a chain of
\* overlaps
RECURSIVE LinkedTo(_, _)
LinkedTo(list, positions) ==
    LET more == positions \cup
                {j \in 1..Len(list) : \E i \in positions : Overlap(list[i], list[j])}
    IN  IF more = positions THEN positions ELSE LinkedTo(list, more)

\* some rectangle of the list contains all the rectangles of the set
SomeOneContains(list, inner) ==
    \E k \in 1..Len(list) : \A r \in inner : InRange(r, list[k])

\* the smallest rectangle around the rectangles of the list at the positions
BoxAround(list, positions) ==
    LET Least(S) == CHOOSE v \in S : \A w \in S : v <= w
        Most(S) == CHOOSE v \in S : \A w \in S : v >= w
    IN  Rectangle(Least({list[i].x_min : i \in positions}),
                  Least({list[i].y_min : i \in positions}),
                  Most({list[i].x_max : i \in positions}),
                  Most({list[i].y_max : i \in positions}))

\* C25 as stated: every rectangle of the list given is contained in some
\* rectangle of the list returned; a rectangle that overlaps no other
\* rectangle of the list given is in the list returned as it is; rectangles
\* linked by a chain of overlaps are inside one rectangle returned.
C25_InputCoveredLonersKept ==
    pc = "normalized" =>
        /\ \A i \in 1..Len(args) : SomeOneContains(result.value, {args[i]})
        /\ \A i \in 1..Len(args) :
              (\A j \in 1..Len(args) : j # i => ~Overlap(args[i], args[j]))
                  => \E k \in 1..Len(result.value) : result.value[k] = args[i]
        /\ \A i \in 1..Len(args) : \A j \in LinkedTo(args, {i}) :
              SomeOneContains(result.value, {args[i], args[j]})

\* C25 (amended): every rectangle of the list given is contained in some
\* rectangle of the list returned; a rectangle that does not overlap the
\* smallest rectangle around all the other rectangles of the list given is
\* in the list returned as it is; rectangles linked by a chain of overlaps
\* are inside one rectangle returned.
C25_InputCoveredFarOnesKept ==
    pc = "normalized" =>
        /\ \A i \in 1..Len(args) : SomeOneContains(result.value, {args[i]})
        /\ \A i \in 1..Len(args) :
              (Len(args) > 1 => ~Overlap(args[i], BoxAround(args, (1..Len(args)) \ {i})))
                  => \E k \in 1..Len(result.value) : result.value[k] = args[i]
        /\ \A i \in 1..Len(args) : \A j \in LinkedTo(args, {i}) :
              SomeOneContains(result.value, {args[i], args[j]})

\* the list of test_normalization gives far_away and the rectangle around
\* the three others
C25_Witness ==
    /\ pc = "normalized"
    /\ args = ListOfTestNormalization
    /\ result.value = <<Rectangle(100, 1, 120, 4), Rectangle(0, 0, 5, 5)>>

-----------------------------------------------------------------------------
(* converter.py: get_indices_of_words. A word is the sequence of its
   characters; the indices returned count from 0. *)

\* The loop of get_indices_of_words from word i on (position i + 1 here),
\* ind the character position of that word in ' '.join(words).
RECURSIVE GetIndicesFrom(_, _, _, _, _, _, _)
GetIndicesFrom(words, i, ind, lo, hi, full_words, partial_words) ==
    IF i >= Len(words)
    THEN [full_words |-> full_words, partial_words |-> partial_words]
    ELSE
      LET w == words[i + 1]
          current_lo == ind
          current_hi == ind + Len(w)
      IN  IF lo <= current_lo /\ hi >= current_hi
          THEN GetIndicesFrom(words, i + 1, ind + Len(w) + 1, lo, hi,
                              Append(full_words, i), partial_words)
          ELSE IF lo < current_hi /\ hi > current_lo
          THEN GetIndicesFrom(words, i + 1, ind + Len(w) + 1, lo, hi,
                              full_words, Append(partial_words, i))
          ELSE GetIndicesFrom(words, i + 1, ind + Len(w) + 1, lo, hi,
                              full_words, partial_words)

\* get_indices_of_words(words, char_span)
get_indices_of_words(words, char_span) ==
    GetIndicesFrom(words, 0, 0, char_span[1], char_span[2], <<>>, <<>>)

\* the words handed over: of 1, 2 and 3 characters
WordsOfSentence == {<<"a">>, <<"i", "s">>, <<"d", "o", "g">>}

\* len(' '.join(words))
RECURSIVE LenOfJoined(_)
LenOfJoined(words) ==
    IF words = <<>> THEN 0
    ELSE IF Len(words) = 1 THEN Len(words[1])
    ELSE Len(words[1]) + 1 + LenOfJoined(Tail(words))

\* a list of words and the span of a segment of ' '.join(words), the lower
\* index inclusive and the upper index exclusive
InitIndices ==
    /\ \E words \in SeqsUpTo(WordsOfSentence, MaxSpanWords) :
          \E lo \in 0..LenOfJoined(words), hi \in 0..LenOfJoined(words) :
              /\ lo <= hi
              /\ args = [words |-> words, char_span |-> <<lo, hi>>]
    /\ kept = None
    /\ NoPdf
    /\ NoExtraction
    /\ NoRectangles
    /\ NoDocument
    /\ pc = "words"

GetIndicesCall ==
    /\ pc = "words"
    /\ result' = Returned(get_indices_of_words(args.words, args.char_span))
    /\ pc' = "indices"
    /\ UNCHANGED <<rect_vars, ext_vars, doc_vars, call_vars, pdf_vars, agg_vars>>

NextIndices == GetIndicesCall

SpecIndices == InitIndices /\ [][NextIndices]_vars

-----------------------------------------------------------------------------
(* Claims on get_indices_of_words, checked under SpecIndices *)

\* the positions in ' '.join(words) of the characters of the word of index i
CharsOfWord(words, i) ==
    LET start == IF i = 0 THEN 0 ELSE LenOfJoined(SubSeq(words, 1, i)) + 1
    IN  start..(start + Len(words[i + 1]) - 1)

\* the positions of the span [lo, hi)
CharsOfSpan(char_span) == char_span[1]..(char_span[2] - 1)

\* the numbers of the set in ascending order
Ascending(S) ==
    CHOOSE seq \in [1..Cardinality(S) -> S] :
        \A k \in 1..(Cardinality(S) - 1) : seq[k] < seq[k + 1]

\* C26: for words joined by single spaces and a span [lo, hi),
\* get_indices_of_words returns as full_words the indices, ascending, of the
\* words whose characters are all in the span, and as partial_words those of
\* the words with some but not all of their characters in the span; no
\* index is in both, and an empty span matches no word.
C26_FullAndPartialWordsOfTheSpan ==
    pc = "indices" =>
        LET words == args.words
            span == CharsOfSpan(args.char_span)
            indices == 0..(Len(words) - 1)
        IN  /\ result.value.full_words =
                  Ascending({i \in indices : CharsOfWord(words, i) \subseteq span})
            /\ result.value.partial_words =
                  Ascending({i \in indices :
                                /\ CharsOfWord(words, i) \cap span # {}
                                /\ ~(CharsOfWord(words, i) \subseteq span)})
            /\ \A k \in 1..Len(result.value.full_words) :
                  \A l \in 1..Len(result.value.partial_words) :
                      result.value.full_words[k] # result.value.partial_words[l]
            /\ args.char_span[1] = args.char_span[2] =>
                  result.value.full_words = <<>> /\ result.value.partial_words = <<>>

-----------------------------------------------------------------------------
(* converter.py: pdf_box_to_image_box. Sizes and coordinates are whole
   numbers; a scale is the exact fraction of two sizes. *)

\* int(x * scale): the product with the fraction cut off towards zero
IntOfScaled(x, scale) ==
    IF x * scale.num >= 0 THEN (x * scale.num) \div scale.den
    ELSE 0 - ((0 - x * scale.num) \div scale.den)

\* abs(img_height / img_width - pdf_height / pdf_width) > 0.1, both widths
\* positive
RatiosDifferTooMuch(pdf_width, pdf_height, img_width, img_height) ==
    10 * Abs(img_height * pdf_width - pdf_height * img_width) > img_width * pdf_width

\* pdf_box_to_image_box
pdf_box_to_image_box(pdf_box, pdf_width, pdf_height, img_width, img_height) ==
    IF RatiosDifferTooMuch(pdf_width, pdf_height, img_width, img_height)
    THEN Raised("RotatedPdfException")
    ELSE
      LET w_scale == Frac(img_width, pdf_width)
          h_scale == Frac(img_width, pdf_width)
      IN  Returned(Rectangle(IntOfScaled(pdf_box.x_min, w_scale),
                             IntOfScaled(pdf_box.y_min, h_scale),
                             IntOfScaled(pdf_box.x_max, w_scale),
                             IntOfScaled(pdf_box.y_max, h_scale)))

\* sizes of a pdf page, as in test_pdf_box_to_image_box
PdfSizes == {50, 100}

\* sizes of the image of a page: ten or twenty pixels to the point, and a
\* height a few rows more than that
ImgSizes == {500, 1000, 1020}

\* the boxes of a page: the box of the test, boxes at the origin, the full page
PdfBoxesOf(pdf_width, pdf_height) ==
    {Rectangle(x_min, y_min, x_max, y_max) :
        x_min \in {0, 10}, y_min \in {0, 10},
        x_max \in {20, pdf_width}, y_max \in {30, pdf_height}}

InitImageBox ==
    /\ \E pdf_width \in PdfSizes, pdf_height \in PdfSizes,
          img_width \in ImgSizes \ {1020}, img_height \in ImgSizes :
          \E pdf_box \in PdfBoxesOf(pdf_width, pdf_height) :
              args = [pdf_box |-> pdf_box,
                      pdf_width |-> pdf_width, pdf_height |-> pdf_height,
                      img_width |-> img_width, img_height |-> img_height]
    /\ kept = None
    /\ NoPdf
    /\ NoExtraction
    /\ NoRectangles
    /\ NoDocument
    /\ pc = "pdf_box"

PdfBoxToImageBoxCall ==
    /\ pc = "pdf_box"
    /\ result' = pdf_box_to_image_box(args.pdf_box, args.pdf_width, args.pdf_height,
                                      args.img_width, args.img_height)
    /\ pc' = "image_box"
    /\ UNCHANGED <<rect_vars, ext_vars, doc_vars, call_vars, pdf_vars, agg_vars>>

NextImageBox == PdfBoxToImageBoxCall

SpecImageBox == InitImageBox /\ [][NextImageBox]_vars

-----------------------------------------------------------------------------
(* Claims on pdf_box_to_image_box, checked under SpecImageBox *)

\* the box with x scaled by img_width/pdf_width and y by img_height/pdf_height
ScaledByBothRatios(pdf_box, pdf_width, pdf_height, img_width, img_height) ==
    Rectangle(IntOfScaled(pdf_box.x_min, Frac(img_width, pdf_width)),
              IntOfScaled(pdf_box.y_min, Frac(img_height, pdf_height)),
              IntOfScaled(pdf_box.x_max, Frac(img_width, pdf_width)),
              IntOfScaled(pdf_box.y_max, Frac(img_height, pdf_height)))

\* C27: pdf_box_to_image_box raises RotatedPdfException exactly when the
\* height/width ratios of image and page differ by more than 0.1; otherwise
\* it returns the box with x scaled by img_width/pdf_width and y scaled by
\* img_height/pdf_height, cut to integers, so the full page box maps to the
\* full image box.
C27_BoxScaledByWidthAndHeightRatios ==
    pc = "image_box" =>
        /\ result.raised <=>
              RatiosDifferTooMuch(args.pdf_width, args.pdf_height,
                                  args.img_width, args.img_height)
        /\ result.raised => result = Raised("RotatedPdfException")
        /\ ~result.raised =>
              /\ result.value =
                    ScaledByBothRatios(args.pdf_box, args.pdf_width, args.pdf_height,
                                       args.img_width, args.img_height)
              /\ args.pdf_box = Rectangle(0, 0, args.pdf_width, args.pdf_height) =>
                    result.value = Rectangle(0, 0, args.img_width, args.img_height)

-----------------------------------------------------------------------------
(* pdf_handler.py: Pdf.page_image and what it calls. A page of the reader is
   its /CropBox and /MediaBox (lower left and upper right corner) and its
   /Rotate; a dict is a function on the keys it holds. *)

\* Pdf.get_width_height, given the rotation that page_rotation returns
get_width_height(page, page_rotation) ==
    IF ~(page.cropBox[1] = 0 /\ page.cropBox[2] = 0)
    THEN Raised("CannotReadPdf")
    ELSE
      LET pdf_width == page.cropBox[3] - page.cropBox[1]
          pdf_height == page.cropBox[4] - page.cropBox[2]
      IN  IF page_rotation \in {90, 270}
          THEN Returned(<<Abs(pdf_height), Abs(pdf_width)>>)
          ELSE Returned(<<Abs(pdf_width), Abs(pdf_height)>>)

\* converter.image_from_pdf_page: pdf2image renders the media box
\* (use_cropbox=False) of the page, turned as its /Rotate says, with dpi
\* pixels to the unit; serial tells the images of two renderings apart
image_from_pdf_page(page, page_num, dpi, serial) ==
    LET w == page.mediaBox[3] - page.mediaBox[1]
        h == page.mediaBox[4] - page.mediaBox[2]
    IN  [page_num |-> page_num, dpi |-> dpi, serial |-> serial,
         size |-> IF page.Rotate \in {90, 270} THEN <<h * dpi, w * dpi>>
                  ELSE <<w * dpi, h * dpi>>]

\* abs(img_h / img_w - h / w) > rotation_thres, with the default 0.1
IsInconsistent(img, w, h) ==
    10 * Abs(img.size[2] * w - h * img.size[1]) > img.size[1] * w

\* (mutant) page_image that renders at every call
PageImageAlwaysRendered(images, rotated, reader, n_rendered, page_idx, dpi, recompute) ==
    LET page == reader[page_idx + 1]
        img == image_from_pdf_page(page, page_idx, dpi, n_rendered + 1)
    IN  [result |-> Returned(img), _images |-> (page_idx :> img) @@ images,
         _rotated |-> rotated, rendered |-> n_rendered + 1]

\* (mutant) page_image that forgets the images of the other pages when it
\* renders
PageImageKeepingOnePage(images, rotated, reader, n_rendered, page_idx, dpi, recompute) ==
    IF page_idx \in DOMAIN images /\ ~recompute
    THEN [result |-> Returned(images[page_idx]), _images |-> images,
          _rotated |-> rotated, rendered |-> n_rendered]
    ELSE
      LET page == reader[page_idx + 1]
          img == image_from_pdf_page(page, page_idx, dpi, n_rendered + 1)
      IN  [result |-> Returned(img), _images |-> (page_idx :> img),
           _rotated |-> rotated, rendered |-> n_rendered + 1]

\* Pdf.page_image(page_idx, dpi, recompute) on a Pdf with the given _images,
\* _rotated and pdf_reader, after n_rendered renderings: what the call returns
\* or raises, and the fields of the Pdf after it
page_image(images, rotated, reader, n_rendered, page_idx, dpi, recompute) ==
    IF page_idx \in DOMAIN images /\ ~recompute
    THEN [result |-> Returned(images[page_idx]), _images |-> images,
          _rotated |-> rotated, rendered |-> n_rendered]
    ELSE
      LET page == reader[page_idx + 1]
          img == image_from_pdf_page(page, page_idx, dpi, n_rendered + 1)
          images_after == (page_idx :> img) @@ images
          crop_is_read == page.cropBox[1] = 0 /\ page.cropBox[2] = 0
          \* page_rotation: the /Rotate kept, or read and kept now
          page_rotation == IF page_idx \in DOMAIN rotated THEN rotated[page_idx]
                           ELSE page.Rotate
          rotated_after == IF crop_is_read THEN (page_idx :> page_rotation) @@ rotated
                           ELSE rotated
          w_h == get_width_height(page, page_rotation)
      IN  IF w_h.raised
          THEN [result |-> w_h, _images |-> images_after,
                _rotated |-> rotated_after, rendered |-> n_rendered + 1]
          ELSE IF IsInconsistent(img, w_h.value[1], w_h.value[2])
          THEN [result |-> Raised("CannotReadPdf"), _images |-> images_after,
                _rotated |-> rotated_after, rendered |-> n_rendered + 1]
          ELSE [result |-> Returned(img), _images |-> images_after,
                _rotated |-> rotated_after, rendered |-> n_rendered + 1]

\* a page as most are: crop box and media box the same
PortraitPage == [cropBox |-> <<0, 0, 6, 8>>, mediaBox |-> <<0, 0, 6, 8>>, Rotate |-> 0]

\* a page shown turned by a quarter
RotatedPage == [cropBox |-> <<0, 0, 6, 8>>, mediaBox |-> <<0, 0, 6, 8>>, Rotate |-> 90]

\* a page cropped to the upper half of its media box
CroppedPage == [cropBox |-> <<0, 0, 6, 4>>, mediaBox |-> <<0, 0, 6, 8>>, Rotate |-> 0]

\* a page whose crop box does not start at the origin
ShiftedPage == [cropBox |-> <<1, 0, 6, 8>>, mediaBox |-> <<0, 0, 6, 8>>, Rotate |-> 0]

\* the pdf files opened
PdfsToRender ==
    {<<PortraitPage, CroppedPage>>,
     <<RotatedPage, PortraitPage, ShiftedPage>>,
     <<CroppedPage, RotatedPage>>}

\* the resolutions asked for: the default and its double
Dpis == {150, 300}

\* Pdf.__init__
InitPdf ==
    /\ pdf_reader \in PdfsToRender
    /\ _images = <<>>
    /\ _rotated = <<>>
    /\ rendered = 0
    /\ NoCall
    /\ NoExtraction
    /\ NoRectangles
    /\ NoDocument
    /\ pc = "pdf"

\* one call of page_image; args keeps its arguments
PageImageCall ==
    \E page_idx \in 0..(Len(pdf_reader) - 1), dpi \in Dpis, recompute \in BOOLEAN :
        \E out \in {page_image(_images, _rotated, pdf_reader, rendered,
                               page_idx, dpi, recompute)} :
            /\ out.rendered <= MaxRenders
            /\ args' = [page_idx |-> page_idx, dpi |-> dpi, recompute |-> recompute]
            /\ result' = out.result
            /\ _images' = out._images
            /\ _rotated' = out._rotated
            /\ rendered' = out.rendered
            /\ pc' = "page_image"
            /\ UNCHANGED <<rect_vars, ext_vars, doc_vars, kept, pdf_reader, agg_vars>>

NextPdf == PageImageCall

SpecPdf == InitPdf /\ [][NextPdf]_vars

-----------------------------------------------------------------------------
(* Claims on Pdf.page_image, checked under SpecPdf *)

\* C28: page_image keeps one image per page. The image a successful call
\* returns is the one kept for the page; a call without recompute for a page
\* that has an image returns that image, whatever the dpi, renders nothing
\* and leaves the kept images as they are; a call with recompute renders
\* once more and puts the new image in the place of that page's only.
C28_OneCachedImagePerPage ==
    /\ [](pc = "page_image" /\ ~result.raised =>
             /\ args.page_idx \in DOMAIN _images
             /\ _images[args.page_idx] = result.value)
    /\ [][pc' = "page_image" =>
             /\ (args'.page_idx \in DOMAIN _images /\ ~args'.recompute) =>
                   /\ result' = Returned(_images[args'.page_idx])
                   /\ _images' = _images
                   /\ rendered' = rendered
             /\ args'.recompute =>
                   /\ rendered' = rendered + 1
                   /\ DOMAIN _images' = DOMAIN _images \cup {args'.page_idx}
                   /\ _images'[args'.page_idx].serial = rendered'
                   /\ _images'[args'.page_idx].dpi = args'.dpi
                   /\ \A q \in DOMAIN _images \ {args'.page_idx} :
                         _images'[q] = _images[q]]_vars

\* a page rendered second, another page rendered third, and then a call for
\* the former at another dpi that returned the image of the second rendering
C28_Witness ==
    /\ pc = "page_image"
    /\ ~args.recompute
    /\ ~result.raised
    /\ result.value.dpi # args.dpi
    /\ result.value.serial = 2
    /\ rendered = 3
    /\ \E q \in DOMAIN _images : q # args.page_idx /\ _images[q].serial = 3

\* the image fails the check of page_image against the size of its page
FailsTheCheck(img) ==
    LET page == pdf_reader[img.page_num + 1]
        w_h == get_width_height(page, page.Rotate)
    IN  ~w_h.raised /\ IsInconsistent(img, w_h.value[1], w_h.value[2])

\* C30: an image that fails the width/height check is never returned: a call
\* of page_image that raises leaves the kept images as they were before it,
\* and no call returns an image that fails the check.
C30_RejectedImageIsNotKept ==
    /\ [][pc' = "page_image" /\ result'.raised => _images' = _images]_vars
    /\ [](pc = "page_image" /\ ~result.raised => ~FailsTheCheck(result.value))

-----------------------------------------------------------------------------
(* Claim on the totality of the matcher, checked under SpecMatch *)

\* C29: the matcher returns a result for every annotation and every list of
\* page words: no call ends with an error, also not for a word whose box has
\* no area and touches or lies inside the annotation box.
C29_MatcherReturnsForEveryWordList ==
    pc = "matched" => ~result.raised

=============================================================================
